---------------------------- MODULE Spec2Model ----------------------------
(***************************************************************************)
(* A model of the store-layout simulator and optimizer:                    *)
(*   - SimulationEngine (simulationEngine.js): the frame loop run(), the    *)
(*     asynchronous per-customer pass updateCustomers(), decisions,         *)
(*     movement, arrival handling, the congestion grid;                     *)
(*   - aiCustomer.js: getCacheKey and the decision functions;               *)
(*   - GeneticOptimizer (geneticOptimizer.js): optimize(), evaluateLayout().*)
(*                                                                         *)
(* Geometry is restricted to the x axis: every wall, opening, product      *)
(* centre, checkout and customer has y = 0, so that the distances           *)
(* Math.sqrt(dx*dx + dy*dy) are |dx| and stay exact in integers.  Lengths   *)
(* are pixels and times are milliseconds, as in the source.                 *)
(***************************************************************************)
EXTENDS Integers, Sequences, FiniteSets, TLC

VARIABLES
    layout,         \* SimulationEngine.layout
    time,           \* SimulationEngine.time
    lastSpawnTime,  \* SimulationEngine.lastSpawnTime
    isRunning,      \* SimulationEngine.isRunning
    animationFrame, \* a frame requested by run() is outstanding
    agents,         \* every customer object created so far, indexed by id
    customers,      \* SimulationEngine.customers: the ids, in array order
    metrics,        \* SimulationEngine.metrics
    passes,         \* the updateCustomers() activations suspended at an await
    lastUpdate,     \* what the last onUpdate call received
    \* evaluateLayout
    simulationTime,   \* its local simulationTime
    customersSpawned, \* its local customersSpawned
    checkInterval,    \* its interval timer is set
    evaluation,       \* the promise it returned
    earlier,          \* the engines of the evaluations that have ended
    \* GeneticOptimizer
    originalLayout, \* GeneticOptimizer.originalLayout
    progress,       \* the events onProgress has received
    generation,     \* GeneticOptimizer.generation
    bestLayout,     \* GeneticOptimizer.bestLayout: <<>> is null
    bestFitness,    \* GeneticOptimizer.bestFitness
    optimizing,     \* GeneticOptimizer.isRunning
    population,     \* the local population of optimize()
    evaluations,    \* the local evaluations of evaluatePopulation()
    evaluated,      \* the local evaluated of optimize(), once sorted
    member,         \* the member evaluatePopulation() is waiting for
    maxGenerations, \* the argument of optimize()
    pc,             \* where optimize() is
    result,         \* what optimize() returned: <<>> before it has
    thrown,         \* the timer callback of the evaluation has thrown
    crossing,       \* the crossover() call in progress: parents, children
                    \* pushed and the random values of its last iteration
    objects,        \* the layout objects the optimizer and its caller hold,
                    \* where the references to them are followed
    \* aiCustomer.js
    decisionCache,  \* the Map decisionCache: a function on the keys it has
    requests,       \* the makeAIDecision calls in progress or just resolved
    \* Editor.jsx
    editor          \* the Editor component: its layout, the alert shown last
                    \* and whether onStartSimulation was called

engineVars == <<layout, time, lastSpawnTime, isRunning, animationFrame,
                agents, customers, metrics, passes, lastUpdate>>
evalVars == <<simulationTime, customersSpawned, checkInterval, evaluation,
              earlier>>
gaVars == <<originalLayout, progress, generation, bestLayout, bestFitness,
            optimizing, population, evaluations, evaluated, member,
            maxGenerations, pc, result, thrown, crossing, objects>>
aiVars == <<decisionCache, requests>>
editorVars == <<editor>>
vars == <<engineVars, evalVars, gaVars, aiVars, editorVars>>

-----------------------------------------------------------------------------
(* Bounds of the model. *)

\* Simulated time explored, in ms.
MaxTime == 17000
\* Simulated time explored in the layout with four sections, in ms.
AisleMaxTime == 9000
\* Customers created in one exploration.
MaxAgents == 3
\* updateCustomers() activations suspended at the same time.
MaxPasses == 2
\* Time counted by the timer of one evaluation, in ms.
MaxSimulationTime == 31000
\* The customers of the engine whose congestion map is built.
MaxCrowd == 5
\* The elements of a layout drawn in the Editor, and its walls.
MaxElements == 4
\* The walls drawn in one Editor, deleted ones included.
MaxWallsDrawn == 3
\* An evaluation that reaches maxTime is followed over its last LateTime.
LateTime == 2000
\* The time of the engines and the simulationTime of the second evaluation
\* where two evaluations follow one another.
IsolationMaxTime == 3000
IsolationSimulationTime == 1000
\* this.populationSize: 20 in the source.
populationSize == 4
\* The greatest argument of optimize().
MaxGenerations == 2
\* Simulated time explored in one run of an engine that is started, paused,
\* stopped and started again, in ms.
ControlMaxTime == 7000
\* Simulated time explored in an engine that is stopped and started again,
\* in ms.
RestartMaxTime == 14000
\* The makeAIDecision calls that are in progress at a time.
MaxRequests == 2

\* Elapsed wall-clock times between two frames, times the speed multiplier.
DeltaTimes == {1000}
\* Values of 30 + Math.random() * 20.
Speeds == {30, 40}
\* Values of (Math.random() - 0.5) * 100, of (Math.random() - 0.5) * 50 and
\* of (Math.random() - 0.5) * 40.
VariationShifts == {10}
MutationShifts == {5}
Resizes == {-10}

-----------------------------------------------------------------------------
(* Program constants. *)

spawnInterval == 5000
maxCustomers == 50
decisionInterval == 2000
visionRange == 150
productWaitTime == 3000
checkoutWaitTime == 5000
atTargetDistance == 5
reachedDistance == 15
avoidDistance == 20
crowdRadius == 30
gridSize == 50
bottleneckThreshold == 3
worldWidth == 1200
defaultOpeningLength == 40
maxTime == 300000
targetCustomers == 30
customerLimit == 30
checkPeriod == 1000
minWidth == 60
\* -Infinity: below every fitness that an evaluation gives.
MinusInfinity == -1

-----------------------------------------------------------------------------
(* Generic helpers. *)

Abs(n) == IF n < 0 THEN -n ELSE n
Min(a, b) == IF a < b THEN a ELSE b
Max(a, b) == IF a > b THEN a ELSE b
Range(s) == {s[i] : i \in DOMAIN s}
Includes(s, e) == \E i \in DOMAIN s : s[i] = e

\* A reduce that stops at the first element.
HeadOnly(s) == IF s = <<>> THEN 0 ELSE Head(s)

RECURSIVE SumSeq(_)
SumSeq(s) == IF s = <<>> THEN 0 ELSE Head(s) + SumSeq(Tail(s))

RECURSIVE SumFn(_)
SumFn(f) ==
    IF DOMAIN f = {} THEN 0
    ELSE LET k == CHOOSE k \in DOMAIN f : TRUE
         IN  f[k] + SumFn([j \in DOMAIN f \ {k} |-> f[j]])

\* All orderings of the elements of a sequence (Array.sort with a random
\* comparator returns some permutation).
Shuffles(s) ==
    {p \in [DOMAIN s -> Range(s)] :
        \E f \in [DOMAIN s -> DOMAIN s] :
            /\ \A i, j \in DOMAIN s : i # j => f[i] # f[j]
            /\ \A i \in DOMAIN s : p[i] = s[f[i]]}

-----------------------------------------------------------------------------
(* Layouts.  JavaScript arrays are indexed from 0: the wall with index i   *)
(* is walls[i + 1] here.                                                   *)

Wall(s, e) == [start |-> s, end |-> e]
Opening(w, o, l) == [wallIndex |-> w, offset |-> o, length |-> l]
Product(px, w, l) == [x |-> px, width |-> w, label |-> l]
Checkout(cx) == [x |-> cx]

\* One entrance, one exit, one checkout, the single section "Dairy".
DairyLayout ==
    [walls     |-> <<Wall(0, 400), Wall(0, 400)>>,
     entrances |-> <<Opening(1, 0, 40)>>,
     exits     |-> <<Opening(1, 100, 40)>>,
     products  |-> <<Product(10, 80, "Dairy")>>,
     checkouts |-> <<Checkout(90)>>]

\* The same, with the checkout and the exit further from the section.
FarCheckoutLayout ==
    [walls     |-> <<Wall(0, 400), Wall(0, 400)>>,
     entrances |-> <<Opening(1, 0, 40)>>,
     exits     |-> <<Opening(1, 200, 40)>>,
     products  |-> <<Product(40, 80, "Dairy")>>,
     checkouts |-> <<Checkout(150)>>]

\* Two sections, and a second exit that lies on the first wall.
TwoSectionLayout ==
    [walls     |-> <<Wall(0, 400), Wall(0, 400)>>,
     entrances |-> <<Opening(1, 0, 40)>>,
     exits     |-> <<Opening(1, 160, 40), Opening(0, 0, 40)>>,
     products  |-> <<Product(30, 40, "Dairy"), Product(90, 40, "Bakery")>>,
     checkouts |-> <<Checkout(150)>>]

\* Four sections, three of them with the same label; only "Bakery" is in
\* sight from the entrance, and no "Dairy" from the centre of "Bakery".
AisleLayout ==
    [walls     |-> <<Wall(0, 400), Wall(0, 400)>>,
     entrances |-> <<Opening(1, 0, 40)>>,
     exits     |-> <<Opening(1, 280, 40)>>,
     products  |-> <<Product(30, 40, "Bakery"), Product(190, 40, "Dairy"),
                     Product(200, 40, "Dairy"), Product(210, 40, "Dairy")>>,
     checkouts |-> <<Checkout(270)>>]

\* The only entrance lies on the first wall (index 0).
FirstWallLayout ==
    [DairyLayout EXCEPT !.entrances = <<Opening(0, 0, 40)>>]

\* No entrance at all.
NoEntranceLayout ==
    [DairyLayout EXCEPT !.entrances = <<>>]

Layouts == {DairyLayout, TwoSectionLayout, AisleLayout, FirstWallLayout,
            NoEntranceLayout}

\* The simulated time explored in a layout.
Horizon(lay) == IF lay = AisleLayout THEN AisleMaxTime ELSE MaxTime

\* The labels that occur, in String order (Array.prototype.sort's default).
LabelNames == <<"Bakery", "Dairy", "Dairy Free">>
Rank(l) == CHOOSE i \in DOMAIN LabelNames : LabelNames[i] = l

Sign(n) == IF n > 0 THEN 1 ELSE IF n < 0 THEN -1 ELSE 0

\* getEntrancePosition / getExitPosition: the empty set stands for null.
\* No wall of the layouts above has length 0 (the source divides by it).
OpeningPosition(lay, o) ==
    IF o.wallIndex = 0 \/ (o.wallIndex + 1) \notin DOMAIN lay.walls
    THEN {}
    ELSE LET wall == lay.walls[o.wallIndex + 1]
             dx == wall.end - wall.start
             len == IF o.length = 0 THEN defaultOpeningLength ELSE o.length
             centerOffset == o.offset + (len \div 2)
         IN  {wall.start + Sign(dx) * centerOffset}

getEntrancePosition(lay, entrance) == OpeningPosition(lay, entrance)
getExitPosition(lay, exit) == OpeningPosition(lay, exit)

ProductCenter(p) == p.x + (p.width \div 2)

\* The layout object has the property `name`.
Has(lay, name) == name \in DOMAIN lay

\* As DairyLayout, without the property walls.
WallsMissingLayout ==
    [entrances |-> <<Opening(1, 0, 40)>>,
     exits     |-> <<Opening(1, 100, 40)>>,
     products  |-> <<Product(10, 80, "Dairy")>>,
     checkouts |-> <<Checkout(90)>>]

\* spawnCustomer raises a TypeError: whichever entrance it picks has a
\* wallIndex other than 0, and this.layout.walls is undefined.
spawnThrows(lay) ==
    /\ lay.entrances # <<>>
    /\ ~Has(lay, "walls")
    /\ \A e \in DOMAIN lay.entrances : lay.entrances[e].wallIndex # 0

-----------------------------------------------------------------------------
(* aiCustomer.js *)

\* Array.prototype.sort() on labels: ascending String order, in place.
RECURSIVE InsertLabel(_, _)
InsertLabel(sorted, l) ==
    IF sorted = <<>> THEN <<l>>
    ELSE IF Rank(l) < Rank(Head(sorted)) THEN <<l>> \o sorted
    ELSE <<Head(sorted)>> \o InsertLabel(Tail(sorted), l)

RECURSIVE SortLabels(_)
SortLabels(s) ==
    IF s = <<>> THEN <<>>
    ELSE InsertLabel(SortLabels(SubSeq(s, 1, Len(s) - 1)), s[Len(s)])

\* A visible section, as getVisibleSections builds it.
Section(n, d, c) == [name |-> n, distance |-> d, crowdCount |-> c]
NoSection == Section("", 0, 0)
Decision(t, s) == [type |-> t, target |-> s]

\* JSON.stringify({sections, list, collected}) for arrays of strings: the
\* text, as the sequence of its parts.  The labels are quoted in the text,
\* so that no label is taken for one of the other parts.
stringify(sections, list, collected) ==
    <<"{sections:[">> \o sections \o <<"],list:[">> \o list
        \o <<"],collected:[">> \o collected \o <<"]}">>

\* A getCacheKey that leaves the sort() calls out.
getCacheKeyUnsorted(visibleSections, shoppingList, collected) ==
    [key |-> stringify([i \in DOMAIN visibleSections |->
                           visibleSections[i].name],
                       shoppingList, collected),
     shoppingList |-> shoppingList,
     collected    |-> collected]

\* getCacheKey: the key, and the caller's two arrays as sort() leaves them.
getCacheKey(visibleSections, shoppingList, collected) ==
    [key |-> stringify(SortLabels([i \in DOMAIN visibleSections |->
                                      visibleSections[i].name]),
                       SortLabels(shoppingList),
                       SortLabels(collected)),
     shoppingList |-> SortLabels(shoppingList),
     collected    |-> SortLabels(collected)]

\* s.includes(t) for texts that are sequences of words: t occurs in s.
Contains(s, t) ==
    \E i \in 0..(Len(s) - Len(t)) : SubSeq(s, i + 1, i + Len(t)) = t

\* label.toLowerCase(), as a sequence of words.
Words(label) ==
    CASE label = "Bakery" -> <<"bakery">>
      [] label = "Dairy" -> <<"dairy">>
      [] label = "Dairy Free" -> <<"dairy", "free">>

\* a.toLowerCase().includes(b.toLowerCase()); no two labels of LabelNames
\* differ by case only.
LabelIncludes(a, b) == a = b \/ Contains(Words(a), Words(b))

\* The pairs of indexes of a sequence.
Pairs(s) == (DOMAIN s) \X (DOMAIN s)

\* The first element that no element precedes in the order `before` (a set
\* of pairs of indexes): what the stable Array.prototype.sort leaves at
\* index 0.
FirstBy(s, before) ==
    LET i == CHOOSE i \in DOMAIN s :
                 /\ \A j \in DOMAIN s : <<j, i>> \notin before
                 /\ \A j \in 1..(i - 1) : <<i, j>> \in before
    IN  s[i]

LessCrowded(a, b) ==
    \/ a.crowdCount < b.crowdCount
    \/ a.crowdCount = b.crowdCount /\ a.distance < b.distance
Nearer(a, b) == a.distance < b.distance

HasEverything(shoppingList, collected) ==
    \A i \in DOMAIN shoppingList : Includes(collected, shoppingList[i])

SectionNeeded(section, shoppingList, collected) ==
    /\ \E i \in DOMAIN shoppingList :
           \/ LabelIncludes(shoppingList[i], section.name)
           \/ LabelIncludes(section.name, shoppingList[i])
    /\ ~Includes(collected, section.name)

makeFallbackDecision(visibleSections, shoppingList, collected) ==
    LET neededSections ==
            SelectSeq(visibleSections,
                      LAMBDA s : SectionNeeded(s, shoppingList, collected))
    IN  IF HasEverything(shoppingList, collected)
        THEN Decision("checkout", NoSection)
        ELSE IF neededSections # <<>>
        THEN Decision("product", FirstBy(neededSections,
                     {q \in Pairs(neededSections) :
                         LessCrowded(neededSections[q[1]],
                                     neededSections[q[2]])}))
        ELSE IF visibleSections # <<>>
        THEN Decision("product", FirstBy(visibleSections,
                     {q \in Pairs(visibleSections) :
                         Nearer(visibleSections[q[1]],
                                visibleSections[q[2]])}))
        ELSE Decision("checkout", NoSection)

\* parseDecision over every reply text of the service: the decisions it can
\* return for these arguments.
parseDecision(visibleSections, shoppingList, collected) ==
    (IF HasEverything(shoppingList, collected)
     THEN {Decision("checkout", NoSection)} ELSE {})
    \cup
    (IF ~HasEverything(shoppingList, collected)
        /\ Len(collected) = Len(shoppingList)
     THEN {Decision("exit", NoSection)} ELSE {})
    \cup
    {Decision("product", visibleSections[i]) : i \in
        {j \in DOMAIN visibleSections :
            SectionNeeded(visibleSections[j], shoppingList, collected)}}
    \cup
    {makeFallbackDecision(visibleSections, shoppingList, collected)}

\* makeAIDecision: a cached or fresh parseDecision result, or the fallback
\* when the service fails.
makeAIDecision(visibleSections, shoppingList, collected) ==
    parseDecision(visibleSections, shoppingList, collected)
    \cup {makeFallbackDecision(visibleSections, shoppingList, collected)}

\* A parseDecision that sends the customer to the first section in sight.
parseFirstVisible(decision, visibleSections, shoppingList, collected) ==
    IF visibleSections # <<>>
    THEN Decision("product", visibleSections[1])
    ELSE Decision("checkout", NoSection)

\* parseDecision for one reply text `decision` (a sequence of words, in
\* lower case and trimmed).
parseReply(decision, visibleSections, shoppingList, collected) ==
    LET named(section) ==
            \/ Contains(decision, Words(section.name))
            \/ Contains(Words(section.name), decision)
        matching ==
            SelectSeq(visibleSections,
                      LAMBDA s : /\ named(s)
                                 /\ SectionNeeded(s, shoppingList, collected))
    IN  IF /\ Contains(decision, <<"checkout">>)
              \/ Contains(decision, <<"exit">>)
           /\ HasEverything(shoppingList, collected)
        THEN Decision("checkout", NoSection)
        ELSE IF /\ Contains(decision, <<"exit">>)
                /\ Len(collected) = Len(shoppingList)
        THEN Decision("exit", NoSection)
        ELSE IF matching # <<>>
        THEN Decision("product", Head(matching))
        ELSE makeFallbackDecision(visibleSections, shoppingList, collected)

\* What the services can do with a request: the fetch or the reading of
\* the body fails, both answer with a status that is not OK, or one of
\* them answers with a text.
Replies ==
    {<<>>, <<"dairy">>, <<"bakery">>, <<"dairy", "free">>, <<"checkout">>,
     <<"exit">>, <<"free">>, <<"nothing">>, <<"to", "dairy">>,
     <<"bakery", "exit">>}
Outcomes ==
    {[kind |-> "error", text |-> <<>>], [kind |-> "notOk", text |-> <<>>]}
        \cup {[kind |-> "reply", text |-> t] : t \in Replies}

NoRequest ==
    [state |-> "none", visibleSections |-> <<>>, shoppingList |-> <<>>,
     collected |-> <<>>, key |-> <<>>, service |-> "none",
     outcome |-> [kind |-> "none", text |-> <<>>],
     decision |-> Decision("none", NoSection)]

\* decisionCache.set(key, value)
CacheSet(cache, key, value) ==
    [k \in DOMAIN cache \cup {key} |-> IF k = key THEN value ELSE cache[k]]

\* makeAIDecision is called, up to its first await or to the return of the
\* cached decision.  The service it reaches answers at some time, or never
\* does.  The call is made when the cache has the key or holds fewer than
\* maxCached entries.
CallMakeAIDecision(r, inputs, maxCached) ==
    /\ requests[r].state = "none"
    /\ \E in \in inputs, service \in {"answers", "silent"} :
          LET k == getCacheKey(in.visibleSections, in.shoppingList,
                               in.collected)
              call == [NoRequest EXCEPT
                          !.visibleSections = in.visibleSections,
                          !.shoppingList = in.shoppingList,
                          !.collected = in.collected,
                          !.key = k.key]
          IN  IF k.key \in DOMAIN decisionCache
              THEN /\ service = "answers"
                   /\ requests' = [requests EXCEPT ![r] =
                          [call EXCEPT !.state = "resolved",
                                       !.decision = decisionCache[k.key]]]
              ELSE /\ Cardinality(DOMAIN decisionCache) < maxCached
                   /\ requests' = [requests EXCEPT ![r] =
                          [call EXCEPT !.state = "pending",
                                       !.service = service]]
    /\ UNCHANGED decisionCache

\* The awaits of makeAIDecision return or throw, and makeAIDecision
\* returns.  The arrays it works on are the caller's, sorted by getCacheKey.
ServiceAnswers(r, outcomes) ==
    /\ requests[r].state = "pending"
    /\ requests[r].service = "answers"
    /\ \E outcome \in outcomes :
          LET request == requests[r]
              k == getCacheKey(request.visibleSections, request.shoppingList,
                               request.collected)
              decision == IF outcome.text = <<>> THEN <<"checkout">>
                          ELSE outcome.text
              parsed == parseReply(decision, request.visibleSections,
                                   k.shoppingList, k.collected)
              fallback == makeFallbackDecision(request.visibleSections,
                                               k.shoppingList, k.collected)
          IN  IF outcome.kind = "reply"
              THEN /\ decisionCache' = CacheSet(decisionCache, k.key, parsed)
                   /\ requests' = [requests EXCEPT ![r] =
                          [request EXCEPT !.state = "resolved",
                                          !.outcome = outcome,
                                          !.decision = parsed]]
              ELSE /\ UNCHANGED decisionCache
                   /\ requests' = [requests EXCEPT ![r] =
                          [request EXCEPT !.state = "resolved",
                                          !.outcome = outcome,
                                          !.decision = fallback]]

\* The caller's await of makeAIDecision returns with the decision.
DecisionReturned(r) ==
    /\ requests[r].state = "resolved"
    /\ requests' = [requests EXCEPT ![r] = NoRequest]
    /\ UNCHANGED decisionCache

\* clearDecisionCache()
clearDecisionCache ==
    /\ decisionCache' = <<>>
    /\ UNCHANGED requests

-----------------------------------------------------------------------------
(* SimulationEngine.  An engine state is handed through the operators as a  *)
(* record W = [agents, customers, metrics, passes]; t is this.time.         *)

NoTarget == [kind |-> "null", label |-> ""]
ProductTarget(p) == [kind |-> "product", label |-> p.label]
CheckoutTarget == [kind |-> "checkout", label |-> ""]
ExitTarget == [kind |-> "exit", label |-> ""]

EmptyMap == [k \in {} |-> 0]
MapGet(m, k) == IF k \in DOMAIN m THEN m[k] ELSE 0
MapSet(m, k, v) == [j \in DOMAIN m \cup {k} |-> IF j = k THEN v ELSE m[j]]

\* The metrics object of the constructor and of start().
NewMetrics ==
    [totalCustomers      |-> 0,
     completedCustomers  |-> 0,
     avgShoppingTime     |-> 0,
     congestionData      |-> EmptyMap,
     bottleneckLocations |-> {}]

\* An updateCustomers() activation: its deltaTime, the array its for-of loop
\* walks (live: that array is still this.customers, so a push shows in it),
\* the index of the customer it is at, and the sections seen for it.
Pass(dt, arr, live, idx, visible) ==
    [deltaTime |-> dt, arr |-> arr, live |-> live, idx |-> idx,
     visible |-> visible]

generateShoppingList(lay) ==
    LET allProducts == [i \in DOMAIN lay.products |-> lay.products[i].label]
    IN  {SubSeq(shuffled, 1, Min(count, Len(shuffled))) :
            shuffled \in Shuffles(allProducts), count \in 3..5}

NewCustomer(pos, speed, shoppingList, t) ==
    [x |-> pos, targetX |-> pos, speed |-> speed,
     shoppingList |-> shoppingList, collected |-> <<>>,
     status |-> "shopping", lastDecisionTime |-> 0,
     currentTarget |-> NoTarget, targetType |-> "null",
     waitTime |-> 0, spawnTime |-> t]

\* this.customers.push(customer): every loop that walks the same array
\* object sees the new element.
PushCustomer(W, customer) ==
    LET id == Len(W.agents) + 1
    IN  [W EXCEPT
            !.agents = Append(@, customer),
            !.customers = Append(@, id),
            !.metrics.totalCustomers = @ + 1,
            !.passes = [k \in DOMAIN @ |->
                           IF @[k].live
                           THEN [@[k] EXCEPT !.arr = Append(@, id)]
                           ELSE @[k]]]

\* A spawnCustomer that puts the customer at 0 when there is no entrance.
spawnCustomerAtOrigin(W, lay, t) ==
    IF Len(W.agents) >= MaxAgents THEN {}
    ELSE {PushCustomer(W, NewCustomer(0, speed, list, t)) :
             speed \in Speeds, list \in generateShoppingList(lay)}

\* spawnCustomer: the states it can leave.  No state is left when the model
\* holds MaxAgents customers already.
spawnCustomer(W, lay, t) ==
    IF lay.entrances = <<>> THEN {W}
    ELSE UNION {
        LET entrancePos == getEntrancePosition(lay, lay.entrances[e])
        IN  IF entrancePos = {} THEN {W}
            ELSE IF Len(W.agents) >= MaxAgents THEN {}
            ELSE {PushCustomer(W, NewCustomer(pos, speed, list, t)) :
                     pos \in entrancePos, speed \in Speeds,
                     list \in generateShoppingList(lay)}
        : e \in DOMAIN lay.entrances}

\* lineIntersectsLine, with t >= 0 && t <= 1 && u >= 0 && u <= 1 cleared of
\* the division by denom.
lineIntersectsLine(x1, y1, x2, y2, x3, y3, x4, y4) ==
    LET denom == (x1 - x2) * (y3 - y4) - (y1 - y2) * (x3 - x4)
        tNum == (x1 - x3) * (y3 - y4) - (y1 - y3) * (x3 - x4)
        uNum == -((x1 - x2) * (y1 - y3) - (y1 - y2) * (x1 - x3))
        InUnit(num) == IF denom > 0 THEN 0 <= num /\ num <= denom
                       ELSE denom <= num /\ num <= 0
    IN  IF denom = 0 THEN FALSE ELSE InUnit(tNum) /\ InUnit(uNum)

checkLineOfSight(lay, x1, y1, x2, y2) ==
    \A w \in DOMAIN lay.walls :
        ~lineIntersectsLine(x1, y1, x2, y2,
                            lay.walls[w].start, 0, lay.walls[w].end, 0)

countCustomersNear(W, x, radius) ==
    Cardinality({i \in DOMAIN W.customers :
                    Abs(W.agents[W.customers[i]].x - x) <= radius})

\* getVisibleSections.  distance is kept in px (the source stores px / 10).
getVisibleSections(W, lay, id) ==
    LET customer == W.agents[id]
        Seen(p) ==
            /\ Abs(ProductCenter(p) - customer.x) <= visionRange
            /\ checkLineOfSight(lay, customer.x, 0, ProductCenter(p), 0)
        seen == SelectSeq(lay.products, Seen)
    IN  [i \in DOMAIN seen |->
            Section(seen[i].label,
                    Abs(ProductCenter(seen[i]) - customer.x),
                    countCustomersNear(W, ProductCenter(seen[i]), crowdRadius))]

\* The exit positions that are not null, in the order of layout.exits.
RECURSIVE ExitPositions(_, _)
ExitPositions(lay, exits) ==
    IF exits = <<>> THEN <<>>
    ELSE LET pos == getExitPosition(lay, Head(exits))
         IN  (IF pos = {} THEN <<>> ELSE <<CHOOSE q \in pos : TRUE>>)
             \o ExitPositions(lay, Tail(exits))

\* "Pick closest exit": the first one at the least distance, or none.
ClosestExit(lay, customer) ==
    LET positions == ExitPositions(lay, lay.exits)
        Closer(a, b) == Abs(a - customer.x) < Abs(b - customer.x)
    IN  IF positions = <<>> THEN {}
        ELSE {FirstBy(positions,
                      {q \in Pairs(positions) :
                          Closer(positions[q[1]], positions[q[2]])})}

\* makeCustomerDecision, from "Set target based on decision" on.
applyDecision(customer, lay, decision) ==
    IF decision.type = "product" /\ decision.target # NoSection
    THEN LET found == SelectSeq(lay.products,
                          LAMBDA p : p.label = decision.target.name)
         IN  IF found = <<>> THEN customer
             ELSE [customer EXCEPT
                      !.targetX = ProductCenter(found[1]),
                      !.currentTarget = ProductTarget(found[1]),
                      !.targetType = "product"]
    ELSE IF decision.type = "checkout" /\ Len(lay.checkouts) > 0
    THEN [customer EXCEPT
             !.targetX = lay.checkouts[1].x,
             !.currentTarget = CheckoutTarget,
             !.targetType = "checkout",
             !.status = "checkout"]
    ELSE IF decision.type = "exit" /\ Len(lay.exits) > 0
    THEN LET closestExit == ClosestExit(lay, customer)
         IN  IF closestExit = {} THEN customer
             ELSE [customer EXCEPT
                      !.targetX = CHOOSE q \in closestExit : TRUE,
                      !.currentTarget = ExitTarget,
                      !.targetType = "exit",
                      !.status = "exiting"]
    ELSE customer

\* moveCustomer.  The heading stays on the axis: the random offset of at
\* most 0.25 rad that the source adds near another customer is left out.
moveCustomer(W, id, deltaTime) ==
    LET customer == W.agents[id]
        dx == customer.targetX - customer.x
        distance == Abs(dx)
        nearby == \E i \in DOMAIN W.customers :
                      /\ W.customers[i] # id
                      /\ Abs(W.agents[W.customers[i]].x - customer.x)
                            < avoidDistance
        step == IF nearby
                THEN (customer.speed * deltaTime) \div 2000
                ELSE (customer.speed * deltaTime) \div 1000
        moved == customer.x + Sign(dx) * step
    IN  IF distance < atTargetDistance THEN customer
        ELSE [customer EXCEPT !.x = Max(0, Min(moved, worldWidth))]

\* The item test of checkTargetReached, taken as if it always passed.
AnyItem(customer, productName) == TRUE

\* The item test of checkTargetReached: on the list, not collected yet.
NewListItem(customer, productName) ==
    /\ Includes(customer.shoppingList, productName)
    /\ ~Includes(customer.collected, productName)

\* checkTargetReached: the customer and the metrics it leaves.
\* A checkTargetReached that counts a completed customer at the arrival at
\* the checkout already, and again at each later arrival there.
checkTargetReachedAtCheckout(W, lay, id, t) ==
    LET customer == W.agents[id]
        distance == Abs(customer.targetX - customer.x)
        productName == customer.currentTarget.label
        completed == W.metrics.completedCustomers + 1
    IN  IF distance >= reachedDistance THEN W
        ELSE IF customer.targetType = "product"
                /\ customer.currentTarget # NoTarget
        THEN IF NewListItem(customer, productName)
             THEN [W EXCEPT
                      !.agents[id].collected = Append(@, productName),
                      !.agents[id].waitTime = productWaitTime]
             ELSE W
        ELSE IF customer.targetType = "checkout"
        THEN IF HasEverything(customer.shoppingList, customer.collected)
             THEN [W EXCEPT
                      !.agents[id].waitTime = checkoutWaitTime,
                      !.agents[id].status = "exiting",
                      !.metrics.completedCustomers = completed]
             ELSE W
        ELSE W

checkTargetReached(W, lay, id, t) ==
    LET customer == W.agents[id]
        distance == Abs(customer.targetX - customer.x)
        productName == customer.currentTarget.label
        closestExit == ClosestExit(lay, customer)
        completed == W.metrics.completedCustomers + 1
        totalTime == W.metrics.avgShoppingTime * (completed - 1)
                        + (t - customer.spawnTime)
    IN  IF distance >= reachedDistance THEN W
        ELSE IF customer.targetType = "product"
                /\ customer.currentTarget # NoTarget
        THEN IF NewListItem(customer, productName)
             THEN [W EXCEPT
                      !.agents[id].collected = Append(@, productName),
                      !.agents[id].waitTime = productWaitTime]
             ELSE W
        ELSE IF customer.targetType = "checkout"
        THEN IF HasEverything(customer.shoppingList, customer.collected)
             THEN [W EXCEPT
                      !.agents[id].waitTime = checkoutWaitTime,
                      !.agents[id].status = "exiting",
                      !.agents[id].targetX =
                          IF closestExit = {} THEN @
                          ELSE CHOOSE q \in closestExit : TRUE,
                      !.agents[id].targetType =
                          IF closestExit = {} THEN @ ELSE "exit"]
             ELSE W
        ELSE IF customer.targetType = "exit"
        THEN [W EXCEPT
                 !.agents[id].status = "exited",
                 !.metrics.completedCustomers = completed,
                 !.metrics.avgShoppingTime = totalTime \div completed]
        ELSE W

\* "Remove customers who exited": this.customers becomes a new array, so no
\* suspended loop walks this.customers any more.
RemoveExited(W) ==
    [W EXCEPT
        !.customers = SelectSeq(@, LAMBDA id : W.agents[id].status # "exited"),
        !.passes = [k \in DOMAIN @ |-> [@[k] EXCEPT !.live = FALSE]]]

\* updateCustomers from the customer at p.idx on, up to its next await (the
\* activation is then kept in passes) or to its end.  makeAIDecision calls
\* getCacheKey before it first awaits: the two arrays are sorted by then.
RECURSIVE updateCustomers(_, _, _, _)
updateCustomers(W, lay, p, t) ==
    IF p.idx > Len(p.arr) THEN RemoveExited(W)
    ELSE LET id == p.arr[p.idx]
             customer == W.agents[id]
             next == [p EXCEPT !.idx = @ + 1]
         IN  IF customer.waitTime > 0
             THEN updateCustomers(
                      [W EXCEPT !.agents[id].waitTime = @ - p.deltaTime],
                      lay, next, t)
             ELSE IF t - customer.lastDecisionTime >= decisionInterval
             THEN LET visible == getVisibleSections(W, lay, id)
                      keyed == getCacheKey(visible, customer.shoppingList,
                                           customer.collected)
                  IN  [W EXCEPT
                          !.agents[id].shoppingList = keyed.shoppingList,
                          !.agents[id].collected = keyed.collected,
                          !.passes = Append(@, [p EXCEPT !.visible = visible])]
             ELSE LET moved == [W EXCEPT !.agents[id] =
                                   moveCustomer(W, id, p.deltaTime)]
                  IN  updateCustomers(checkTargetReached(moved, lay, id, t),
                                      lay, next, t)

\* The rest of an activation once makeAIDecision has returned `decision`.
resumeCustomers(W, lay, p, t, decision) ==
    LET id == p.arr[p.idx]
        decided == [W EXCEPT
                       !.agents[id] =
                           [applyDecision(@, lay, decision)
                               EXCEPT !.lastDecisionTime = t]]
        moved == [decided EXCEPT !.agents[id] =
                     moveCustomer(decided, id, p.deltaTime)]
    IN  updateCustomers(checkTargetReached(moved, lay, id, t), lay,
                        [p EXCEPT !.idx = @ + 1, !.visible = <<>>], t)

Cell(x) == x \div gridSize

\* The loop of updateCongestionMap over this.customers.
RECURSIVE CountCells(_, _, _)
CountCells(ags, ids, map) ==
    IF ids = <<>> THEN map
    ELSE LET key == Cell(ags[Head(ids)].x)
         IN  CountCells(ags, Tail(ids), MapSet(map, key, MapGet(map, key) + 1))

\* updateCongestionMap without congestionData.clear().
updateCongestionMapKept(W) ==
    LET data == CountCells(W.agents, W.customers, W.metrics.congestionData)
    IN  [W EXCEPT
            !.metrics.congestionData = data,
            !.metrics.bottleneckLocations =
                {k \in DOMAIN data : data[k] >= bottleneckThreshold}]

updateCongestionMap(W) ==
    LET data == CountCells(W.agents, W.customers, EmptyMap)
    IN  [W EXCEPT
            !.metrics.congestionData = data,
            !.metrics.bottleneckLocations =
                {k \in DOMAIN data : data[k] >= bottleneckThreshold}]

\* Math.floor(n / d) for d > 0.
FloorDiv(n, d) == n \div d

\* Math.round(n / d) for d > 0.
RoundDiv(n, d) == (2 * n + d) \div (2 * d)

\* getMetrics.  avgCongestion is in tenths (Math.round(avg * 10) / 10),
\* avgShoppingTime in seconds.
getMetrics(W) ==
    LET data == W.metrics.congestionData
        cells == Cardinality(DOMAIN data)
    IN  [totalCustomers      |-> W.metrics.totalCustomers,
         completedCustomers  |-> W.metrics.completedCustomers,
         congestionData      |-> data,
         bottleneckLocations |-> W.metrics.bottleneckLocations,
         avgCongestion       |-> IF cells > 0
                                 THEN RoundDiv(10 * SumFn(data), cells)
                                 ELSE 0,
         currentCustomers    |-> Len(W.customers),
         bottleneckCount     |-> Cardinality(W.metrics.bottleneckLocations),
         avgShoppingTime     |-> RoundDiv(W.metrics.avgShoppingTime, 1000)]

NoUpdate == [customers |-> <<>>, time |-> -1, metrics |-> getMetrics(
                [agents |-> <<>>, customers |-> <<>>, metrics |-> NewMetrics,
                 passes |-> <<>>])]

World == [agents |-> agents, customers |-> customers, metrics |-> metrics,
          passes |-> passes]

\* run(), for a frame that comes deltaTime after the last one.
run(W, lay, t0, lastSpawn, deltaTime) ==
    LET t == t0 + deltaTime
        spawnDue == t - lastSpawn >= spawnInterval
                    /\ Len(W.customers) < maxCustomers
        spawned == IF spawnDue THEN spawnCustomer(W, lay, t) ELSE {W}
    IN  {LET updated == updateCustomers(
                            W1, lay, Pass(deltaTime, W1.customers, TRUE, 1, <<>>), t)
             mapped == updateCongestionMap(updated)
         IN  [world |-> mapped,
              time |-> t,
              lastSpawnTime |-> IF spawnDue THEN t ELSE lastSpawn,
              update |-> [customers |-> mapped.customers, time |-> t,
                          metrics |-> getMetrics(mapped)]]
         : W1 \in spawned}

SetEngine(r) ==
    /\ agents' = r.world.agents
    /\ customers' = r.world.customers
    /\ metrics' = r.world.metrics
    /\ passes' = r.world.passes
    /\ time' = r.time
    /\ lastSpawnTime' = r.lastSpawnTime
    /\ lastUpdate' = r.update

\* run() is left by the TypeError of spawnCustomer: after this.time is
\* set, before anything else is done and before the next frame is requested.
runThrows(lay, t, lastSpawn, active) ==
    /\ t - lastSpawn >= spawnInterval
    /\ Len(active) < maxCustomers
    /\ spawnThrows(lay)

\* A frame requested by run() through requestAnimationFrame arrives.
Tick ==
    /\ animationFrame
    /\ isRunning
    /\ \E deltaTime \in DeltaTimes :
        /\ time + deltaTime <= Horizon(layout)
        /\ IF runThrows(layout, time + deltaTime, lastSpawnTime, customers)
           THEN /\ time' = time + deltaTime
                /\ animationFrame' = FALSE
                /\ UNCHANGED <<lastSpawnTime, agents, customers, metrics,
                               passes, lastUpdate>>
           ELSE /\ \E r \in run(World, layout, time, lastSpawnTime,
                                deltaTime) :
                      /\ Len(r.world.passes) <= MaxPasses
                      /\ SetEngine(r)
                /\ animationFrame' = TRUE
    /\ UNCHANGED <<layout, isRunning>>

\* makeAIDecision returns to a suspended updateCustomers() activation.
Resume ==
    \E k \in DOMAIN passes :
        LET p == passes[k]
            id == p.arr[p.idx]
            rest == [World EXCEPT !.passes =
                        SubSeq(passes, 1, k - 1) \o
                        SubSeq(passes, k + 1, Len(passes))]
        IN  \E decision \in makeAIDecision(p.visible, agents[id].shoppingList,
                                           agents[id].collected) :
                LET W == resumeCustomers(rest, layout, p, time, decision)
                IN  /\ Len(W.passes) <= MaxPasses
                    /\ agents' = W.agents
                    /\ customers' = W.customers
                    /\ metrics' = W.metrics
                    /\ passes' = W.passes
                    /\ UNCHANGED <<layout, time, lastSpawnTime, isRunning,
                                   animationFrame, lastUpdate>>

\* start(), called on an engine that is not running: the reset, then the
\* first run().  The frame time was last set by the constructor or by the
\* last run().
Start ==
    /\ ~isRunning
    /\ isRunning' = TRUE
    /\ LET reset == [World EXCEPT
                        !.customers = <<>>,
                        !.metrics = NewMetrics,
                        !.passes = [k \in DOMAIN @ |->
                                       [@[k] EXCEPT !.live = FALSE]]]
       IN  \E deltaTime \in DeltaTimes \cup {0} :
               /\ ~runThrows(layout, deltaTime, lastSpawnTime, <<>>)
               /\ \E r \in run(reset, layout, 0, lastSpawnTime, deltaTime) :
                      /\ Len(r.world.passes) <= MaxPasses
                      /\ SetEngine(r)
    /\ animationFrame' = TRUE
    /\ UNCHANGED layout

\* A pause() that sets the simulated time back as well.
PauseResetsTime ==
    /\ isRunning' = FALSE
    /\ animationFrame' = FALSE
    /\ time' = 0
    /\ UNCHANGED <<layout, lastSpawnTime, agents, customers, metrics, passes,
                   lastUpdate>>

\* pause(): cancelAnimationFrame; run() returns at once from now on.
Pause ==
    /\ isRunning' = FALSE
    /\ animationFrame' = FALSE
    /\ UNCHANGED <<layout, time, lastSpawnTime, agents, customers, metrics,
                   passes, lastUpdate>>

\* stop()
Stop ==
    /\ isRunning' = FALSE
    /\ animationFrame' = FALSE
    /\ customers' = <<>>
    /\ passes' = [k \in DOMAIN passes |-> [passes[k] EXCEPT !.live = FALSE]]
    /\ time' = 0
    /\ UNCHANGED <<layout, lastSpawnTime, agents, metrics, lastUpdate>>

\* new SimulationEngine(layout, onUpdate), for a layout of `lays`.
Constructed(lays) ==
    /\ layout \in lays
    /\ time = 0
    /\ lastSpawnTime = 0
    /\ isRunning = FALSE
    /\ animationFrame = FALSE
    /\ agents = <<>>
    /\ customers = <<>>
    /\ metrics = NewMetrics
    /\ passes = <<>>
    /\ lastUpdate = NoUpdate

-----------------------------------------------------------------------------
(* GeneticOptimizer.evaluateLayout, with the engine it drives.  Fitness     *)
(* values are in tenths, as avgCongestion is.                               *)

\* "Calculate fitness"
\* A fitness without the weights of the three metrics.
fitnessUnweighted(m) ==
    10000 - m.avgCongestion - m.bottleneckCount - m.avgShoppingTime

fitness(m) ==
    10000 - (m.avgCongestion * 5) - (m.bottleneckCount * 100)
          - (m.avgShoppingTime * 20)

NoEvaluation == [state |-> "none", fitness |-> 0, completedCustomers |-> 0]

\* evaluateLayout is called: new SimulationEngine, engine.start(),
\* setInterval.
BeginEvaluation ==
    /\ evaluation.state = "none"
    /\ Start
    /\ simulationTime' = 0
    /\ customersSpawned' = 0
    /\ checkInterval' = TRUE
    /\ evaluation' = [NoEvaluation EXCEPT !.state = "pending"]
    /\ UNCHANGED <<earlier, gaVars, aiVars, editorVars>>

\* The callback of setInterval runs.  When spawnCustomer throws, the
\* callback ends there, with simulationTime already counted.
CheckInterval ==
    /\ checkInterval
    /\ \/ simulationTime + checkPeriod <= MaxSimulationTime
       \/ simulationTime >= maxTime - LateTime
    /\ simulationTime' = simulationTime + checkPeriod
    /\ LET spawning == /\ customersSpawned < targetCustomers
                       /\ Len(customers) < customerLimit
       IN  IF spawning /\ spawnThrows(layout)
           THEN UNCHANGED <<engineVars, customersSpawned, checkInterval,
                            evaluation>>
           ELSE \E W \in (IF spawning THEN spawnCustomer(World, layout, time)
                          ELSE {World}) :
                LET spawned == customersSpawned + (IF spawning THEN 1 ELSE 0)
                    ending == \/ Len(W.customers) = 0
                                 /\ spawned >= targetCustomers
                              \/ simulationTime' >= maxTime
                    stopped == [W EXCEPT
                                   !.customers = <<>>,
                                   !.passes = [k \in DOMAIN @ |->
                                       [@[k] EXCEPT !.live = FALSE]]]
                    m == getMetrics(stopped)
                IN  /\ customersSpawned' = spawned
                    /\ agents' = W.agents
                    /\ metrics' = W.metrics
                    /\ IF ending
                       THEN /\ checkInterval' = FALSE
                            /\ isRunning' = FALSE
                            /\ animationFrame' = FALSE
                            /\ customers' = stopped.customers
                            /\ passes' = stopped.passes
                            /\ time' = 0
                            /\ evaluation' =
                                   [state |-> "fulfilled",
                                    fitness |-> fitness(m),
                                    completedCustomers |->
                                        m.completedCustomers]
                       ELSE /\ customers' = W.customers
                            /\ passes' = W.passes
                            /\ UNCHANGED <<checkInterval, isRunning,
                                           animationFrame, time, evaluation>>
                    /\ UNCHANGED <<layout, lastSpawnTime, lastUpdate>>
    /\ UNCHANGED <<earlier, gaVars, aiVars, editorVars>>

-----------------------------------------------------------------------------
(* GeneticOptimizer.  Layouts are values here: every layout the source     *)
(* changes in place (a child in crossover and mutate) is its own copy, and  *)
(* JSON.parse(JSON.stringify(layout)) gives an equal value for the layouts  *)
(* above, which hold finite numbers and strings only and no property whose  *)
(* value is undefined.                                                      *)

survivorCount == (populationSize * 3) \div 10

Resized(product, delta) ==
    [product EXCEPT !.width = Max(minWidth, @ + delta)]

createVariation(lay) ==
    LET swapped ==
            IF Len(lay.products) > 1
            THEN {[idx \in DOMAIN lay.products |->
                      [shuffled[idx] EXCEPT !.x = lay.products[idx].x]] :
                    shuffled \in Shuffles(lay.products)}
            ELSE {lay.products}
        moved ==
            {[i \in DOMAIN lay.checkouts |->
                 [x |-> lay.checkouts[i].x + shift[i]]] :
                shift \in [DOMAIN lay.checkouts -> VariationShifts]}
        Resizing(products) ==
            {[i \in DOMAIN products |->
                 IF i \in some THEN Resized(products[i], delta[i])
                 ELSE products[i]] :
                some \in SUBSET DOMAIN products,
                delta \in [DOMAIN products -> Resizes]}
    IN  {[lay EXCEPT !.products = resized, !.checkouts = checkouts] :
            resized \in UNION {Resizing(products) : products \in swapped},
            checkouts \in moved}

initializePopulation(original) ==
    {<<original>> \o variations :
        variations \in [1..(populationSize - 1) -> createVariation(original)]}

\* The metrics an evaluation can end with.  No customer ever completes (see
\* C2), and none is created where no entrance has a position.
EndMetrics(lay) ==
    IF \E e \in DOMAIN lay.entrances :
           getEntrancePosition(lay, lay.entrances[e]) # {}
    THEN {[avgCongestion |-> c, bottleneckCount |-> 0, avgShoppingTime |-> 0] :
             c \in {10, 15}}
    ELSE {[avgCongestion |-> 0, bottleneckCount |-> 0, avgShoppingTime |-> 0]}

\* evaluateLayout: the values its promise can be fulfilled with.  It never
\* is when the timer callback throws at each of its runs.
evaluateLayout(lay) ==
    IF spawnThrows(lay) THEN {} ELSE {fitness(m) : m \in EndMetrics(lay)}

\* The array as it is, not sorted.
Unsorted(s) == s

\* evaluated.sort((a, b) => b.fitness - a.fitness): a stable sort.
RECURSIVE InsertByFitness(_, _)
InsertByFitness(sorted, e) ==
    IF sorted = <<>> THEN <<e>>
    ELSE IF e.fitness > Head(sorted).fitness THEN <<e>> \o sorted
    ELSE <<Head(sorted)>> \o InsertByFitness(Tail(sorted), e)

RECURSIVE SortByFitness(_)
SortByFitness(s) ==
    IF s = <<>> THEN <<>>
    ELSE InsertByFitness(SortByFitness(SubSeq(s, 1, Len(s) - 1)), s[Len(s)])

\* "Update best", with the test left out.
UpdateBestAlways(best, top) == top

\* "Update best"
UpdateBest(best, top) ==
    IF top.fitness > best.fitness THEN top ELSE best

\* A crossover that takes the position of a product from the product of
\* the second parent that is as far from the end as it is from the start.
ChildMirrored(parent1, parent2, mixPoint, taken) ==
    [parent1 EXCEPT
        !.products =
            [j \in DOMAIN parent1.products |->
                IF j - 1 >= mixPoint /\ Len(parent2.products) = Len(parent1.products)
                THEN [parent1.products[j] EXCEPT
                         !.x = parent2.products[Len(parent2.products) + 1 - j].x]
                ELSE parent1.products[j]]]

\* One iteration of the loop of crossover: the child of parent1 and
\* parent2 when Math.random() gives the index mixPoint and, for the
\* checkouts at the indexes of taken, a value below 0.5.
ChildOf(parent1, parent2, mixPoint, taken) ==
    LET products ==
            IF Len(parent2.products) = Len(parent1.products)
            THEN [j \in DOMAIN parent1.products |->
                     IF j - 1 >= mixPoint
                     THEN [parent1.products[j] EXCEPT
                              !.x = parent2.products[j].x]
                     ELSE parent1.products[j]]
            ELSE parent1.products
        checkouts ==
            IF Len(parent2.checkouts) = Len(parent1.checkouts)
            THEN [idx \in DOMAIN parent1.checkouts |->
                     IF idx \in taken THEN parent2.checkouts[idx]
                     ELSE parent1.checkouts[idx]]
            ELSE parent1.checkouts
    IN  [parent1 EXCEPT !.products = products, !.checkouts = checkouts]

\* The values Math.floor(Math.random() * child.products.length) can have.
MixPoints(parent1) ==
    IF Len(parent1.products) = 0 THEN {0}
    ELSE 0..(Len(parent1.products) - 1)

\* The children crossover can make of two of the parents.
CrossoverChild(parents) ==
    UNION {
        {ChildOf(parents[a].layout, parents[b].layout, mixPoint, taken) :
            mixPoint \in MixPoints(parents[a].layout),
            taken \in SUBSET DOMAIN parents[a].layout.checkouts}
        : a \in DOMAIN parents, b \in DOMAIN parents}

\* A crossover that makes one child fewer.
crossoverOneFewer(parents) ==
    [1..(populationSize - survivorCount - 1) -> CrossoverChild(parents)]

crossover(parents) ==
    [1..(populationSize - survivorCount) -> CrossoverChild(parents)]

\* A mutate whose swap writes the second product over the first and stops.
MutateChildOverwriting(child) ==
    IF Len(child.products) > 1
    THEN {child} \cup
         {[child EXCEPT !.products[idx1] = child.products[idx2]] :
             idx1 \in DOMAIN child.products, idx2 \in DOMAIN child.products}
    ELSE {child}

\* What mutate can leave of one child.
MutateChild(child) ==
    LET Swapped(products) ==
            IF Len(products) > 1
            THEN {[products EXCEPT ![idx1] = products[idx2],
                                   ![idx2] = products[idx1]] :
                    idx1 \in DOMAIN products, idx2 \in DOMAIN products}
            ELSE {products}
        ResizedOne(products) ==
            {products} \cup
            {[products EXCEPT ![i] = Resized(@, delta)] :
                i \in DOMAIN products, delta \in Resizes}
        movedOne ==
            {child.checkouts} \cup
            {[child.checkouts EXCEPT ![i].x = @ + shift] :
                i \in DOMAIN child.checkouts, shift \in MutationShifts}
    IN  {child} \cup
        {[child EXCEPT !.products = products, !.checkouts = checkouts] :
            products \in UNION {ResizedOne(sw) : sw \in Swapped(child.products)},
            checkouts \in movedOne}

RECURSIVE mutate(_)
mutate(children) ==
    IF children = <<>> THEN {<<>>}
    ELSE {<<mutated>> \o rest :
             mutated \in MutateChild(Head(children)),
             rest \in mutate(Tail(children))}

Evaluation(lay, f) == [layout |-> lay, fitness |-> f]

\* A result that does not count the generation that was under way.
ResultBeforeCount(best, generations) ==
    [originalLayout |-> originalLayout, optimizedLayout |-> best.layout,
     fitness |-> best.fitness, generations |-> generations - 1]

\* The object optimize() returns.
Result(best, generations) ==
    [originalLayout |-> originalLayout, optimizedLayout |-> best.layout,
     fitness |-> best.fitness, generations |-> generations]

\* optimize(n) is called on the new optimizer, and runs up to its first
\* await: the evaluation of the first member.  The locals of optimize()
\* and of evaluatePopulation() are empty when no call holds them.
Optimize ==
    /\ pc = "constructed"
    /\ \E n \in 0..MaxGenerations, first \in initializePopulation(originalLayout) :
        /\ maxGenerations' = n
        /\ generation' = 0
        /\ IF 0 < n
           THEN /\ optimizing' = TRUE
                /\ pc' = "evaluating"
                /\ population' = first
                /\ result' = result
           ELSE /\ optimizing' = FALSE
                /\ population' = <<>>
                /\ pc' = "returned"
                /\ result' = <<Result([layout |-> bestLayout,
                                       fitness |-> bestFitness], 0)>>
    /\ member' = 1
    /\ evaluations' = <<>>
    /\ UNCHANGED <<originalLayout, progress, bestLayout, bestFitness,
                   evaluated, thrown>>
    /\ UNCHANGED <<engineVars, evalVars, aiVars, editorVars, crossing,
                   objects>>

\* The promise of evaluateLayout is fulfilled for a member that is not the
\* last one: evaluatePopulation goes on to the next member.
EvaluationResolves ==
    /\ pc = "evaluating"
    /\ member < Len(population)
    /\ \E f \in evaluateLayout(population[member]) :
           evaluations' = Append(evaluations, Evaluation(population[member], f))
    /\ member' = member + 1
    /\ UNCHANGED <<originalLayout, progress, generation, bestLayout,
                   bestFitness, optimizing, population, evaluated,
                   maxGenerations, pc, result, thrown>>
    /\ UNCHANGED <<engineVars, evalVars, aiVars, editorVars, crossing,
                   objects>>

\* The promise of evaluateLayout is fulfilled for the last member: the rest
\* of the generation, then the next one is begun or optimize() returns.
\* crossover has no outcome (it throws) when there is no survivor.
GenerationEnds ==
    /\ pc = "evaluating"
    /\ member = Len(population)
    /\ \E f \in evaluateLayout(population[member]) :
        LET all == Append(evaluations, Evaluation(population[member], f))
            sorted == SortByFitness(all)
            kept == UpdateBest([layout |-> bestLayout, fitness |-> bestFitness],
                               [layout |-> <<sorted[1].layout>>,
                                fitness |-> sorted[1].fitness])
            event == [generation |-> generation,
                      bestFitness |-> kept.fitness,
                      bestLayout |-> kept.layout,
                      avgFitness |->
                          SumSeq([i \in DOMAIN sorted |-> sorted[i].fitness])
                              \div Len(sorted)]
            survivors == SubSeq(sorted, 1, survivorCount)
        IN  /\ evaluated' = sorted
            /\ bestFitness' = kept.fitness
            /\ bestLayout' = kept.layout
            /\ progress' = Append(progress, event)
            /\ generation' = generation + 1
            /\ crossover(survivors) # {}
            /\ IF generation + 1 < maxGenerations /\ optimizing
               THEN /\ pc' = "evaluating"
                    /\ \E children \in crossover(survivors) :
                       \E mutated \in mutate(children) :
                           population' =
                               [i \in DOMAIN survivors |->
                                   survivors[i].layout] \o mutated
                    /\ UNCHANGED <<optimizing, result>>
               ELSE /\ pc' = "returned"
                    /\ population' = <<>>
                    /\ optimizing' = FALSE
                    /\ result' = <<Result(kept, generation + 1)>>
    /\ member' = 1
    /\ evaluations' = <<>>
    /\ UNCHANGED <<originalLayout, maxGenerations, thrown>>
    /\ UNCHANGED <<engineVars, evalVars, aiVars, editorVars, crossing,
                   objects>>

\* The timer callback of the evaluation that optimize() waits for throws.
CallbackThrows ==
    /\ pc = "evaluating"
    /\ ~thrown
    /\ spawnThrows(population[member])
    /\ thrown' = TRUE
    /\ UNCHANGED <<originalLayout, progress, generation, bestLayout,
                   bestFitness, optimizing, population, evaluations, evaluated,
                   member, maxGenerations, pc, result>>
    /\ UNCHANGED <<engineVars, evalVars, aiVars, editorVars, crossing,
                   objects>>

\* stop(), called before optimize() is, or while optimize() runs.
StopOptimizer ==
    /\ \/ pc = "constructed"
       \/ pc = "evaluating" /\ optimizing
    /\ optimizing' = FALSE
    /\ UNCHANGED <<originalLayout, progress, generation, bestLayout,
                   bestFitness, population, evaluations, evaluated, member,
                   maxGenerations, pc, result, thrown>>
    /\ UNCHANGED <<engineVars, evalVars, aiVars, editorVars, crossing,
                   objects>>

-----------------------------------------------------------------------------
(* Specifications *)

\* No evaluateLayout call has been made.
NotEvaluating ==
    /\ simulationTime = 0
    /\ customersSpawned = 0
    /\ checkInterval = FALSE
    /\ evaluation = NoEvaluation
    /\ earlier = <<>>

\* No Editor is mounted.
EditorClosed ==
    editor = [version |-> 0, layout |-> <<>>, alert |-> "", started |-> FALSE,
              event |-> "", drawn |-> 0]

\* The module aiCustomer.js is loaded and makeAIDecision was not called.
NoDecisions ==
    /\ decisionCache = <<>>
    /\ requests = [r \in 1..MaxRequests |-> NoRequest]

NoCrossing == [parents |-> <<>>, children |-> <<>>, draw |-> <<>>]

\* No layout object is followed.
NoObjects ==
    [heap |-> <<>>, given |-> 0, original |-> 0, population |-> <<>>,
     best |-> 0, recorded |-> <<>>, bestFitness |-> MinusInfinity,
     generation |-> 0, pc |-> "none"]

\* No specification but the one of the layout objects follows them.
NotFollowed == objects = NoObjects

\* new GeneticOptimizer(original, onProgress)
NewOptimizer(original) ==
    /\ crossing = NoCrossing
    /\ originalLayout = original
    /\ progress = <<>>
    /\ generation = 0
    /\ bestLayout = <<>>
    /\ bestFitness = MinusInfinity
    /\ optimizing = FALSE
    /\ population = <<>>
    /\ evaluations = <<>>
    /\ evaluated = <<>>
    /\ member = 1
    /\ maxGenerations = 0
    /\ pc = "constructed"
    /\ result = <<>>
    /\ thrown = FALSE

\* The engine on its own: start(), frames, returning decision calls.
EngineStart == Start /\ UNCHANGED <<evalVars, gaVars, aiVars, editorVars>>
EngineTick == Tick /\ UNCHANGED <<evalVars, gaVars, aiVars, editorVars>>
EngineResume == Resume /\ UNCHANGED <<evalVars, gaVars, aiVars, editorVars>>

Init ==
    /\ Constructed(Layouts)
    /\ NotEvaluating
    /\ NoDecisions
    /\ EditorClosed
    /\ NewOptimizer(DairyLayout)
    /\ NotFollowed

Next == EngineStart \/ EngineTick \/ EngineResume

Spec == Init /\ [][Next]_vars

\* The engine of a layout with the single section "Dairy".
DairyInit ==
    /\ Constructed({DairyLayout, FarCheckoutLayout})
    /\ NotEvaluating
    /\ NoDecisions
    /\ EditorClosed
    /\ NewOptimizer(DairyLayout)
    /\ NotFollowed

\* requestAnimationFrame keeps delivering frames to a running engine: the
\* time explored is used up again and again.
FramesKeepComing == []<>(time = Horizon(layout))

\* Every makeAIDecision call returns: again and again no activation of
\* updateCustomers is suspended.
DecisionsReturn == []<>(passes = <<>>)

\* The decision of the fallback provider is there before the next frame:
\* run() finds no activation of updateCustomers suspended.
DairyTick == passes = <<>> /\ EngineTick

DairyNext == EngineStart \/ DairyTick \/ EngineResume

\* In these layouts: the engine is started, frames keep coming and every
\* decision call returns, before the next frame.
DairySpec ==
    /\ DairyInit
    /\ [][DairyNext]_vars
    /\ WF_vars(EngineStart)
    /\ FramesKeepComing
    /\ DecisionsReturn

\* The engine with its controls: start(), pause() and stop() are called at
\* any moment between two frames, start() on an engine that is not running.
EnginePause == isRunning /\ Pause /\ UNCHANGED <<evalVars, gaVars, aiVars, editorVars>>
EngineStop == Stop /\ UNCHANGED <<evalVars, gaVars, aiVars, editorVars>>
ControlTick == time < ControlMaxTime /\ EngineTick

ControlNext ==
    \/ EngineStart
    \/ ControlTick
    \/ EngineResume
    \/ EnginePause
    \/ EngineStop

ControlSpec == DairyInit /\ [][ControlNext]_vars

\* One evaluateLayout call.
EvaluatedLayouts ==
    {DairyLayout, FirstWallLayout, WallsMissingLayout, NoEntranceLayout}

EvalInit ==
    /\ Constructed(EvaluatedLayouts)
    /\ NotEvaluating
    /\ NoDecisions
    /\ EditorClosed
    /\ NewOptimizer(DairyLayout)
    /\ NotFollowed

EvalNext == BeginEvaluation \/ EngineTick \/ EngineResume \/ CheckInterval

EvalSpec == EvalInit /\ [][EvalNext]_vars

\* One optimize() call on a new optimizer.  The timers are fair: an
\* evaluation whose promise can be fulfilled is fulfilled.
OriginalLayouts == {DairyLayout, WallsMissingLayout}

OptimizerInit ==
    /\ Constructed({DairyLayout})
    /\ NotEvaluating
    /\ NoDecisions
    /\ EditorClosed
    /\ \E original \in OriginalLayouts : NewOptimizer(original)
    /\ NotFollowed

OptimizerNext ==
    \/ Optimize
    \/ EvaluationResolves
    \/ GenerationEnds
    \/ CallbackThrows
    \/ StopOptimizer

OptimizerSpec ==
    /\ OptimizerInit
    /\ [][OptimizerNext]_vars
    /\ WF_vars(Optimize)
    /\ WF_vars(EvaluationResolves)
    /\ WF_vars(GenerationEnds)
    /\ WF_vars(CallbackThrows)

\* The decision provider on its own: makeAIDecision calls with the services
\* of aiCustomer.js behind them.  The sections a customer sees are at 3 or
\* 5 feet, with nobody or one customer there.
SectionsSeen ==
    {Section(LabelNames[n], d[1], d[2]) :
        n \in DOMAIN LabelNames, d \in {<<3, 1>>, <<5, 0>>, <<5, 1>>}}
VisibleSections ==
    {<<>>} \cup {<<a>> : a \in SectionsSeen}
        \cup {<<q[1], q[2]>> : q \in {p \in SectionsSeen \X SectionsSeen :
                                          p[1].name # p[2].name}}
LabelLists ==
    {<<>>} \cup {<<a>> : a \in Range(LabelNames)}
        \cup {<<q[1], q[2]>> : q \in {p \in Range(LabelNames)
                                              \X Range(LabelNames) :
                                          p[1] # p[2]}}
DecisionInputs ==
    [visibleSections : VisibleSections, shoppingList : LabelLists,
     collected : LabelLists]

DecisionInit ==
    /\ Constructed({DairyLayout})
    /\ NotEvaluating
    /\ NoDecisions
    /\ EditorClosed
    /\ NewOptimizer(DairyLayout)
    /\ NotFollowed

\* One call at a time, each after a clearDecisionCache().
DecisionCall ==
    /\ decisionCache = <<>>
    /\ CallMakeAIDecision(1, DecisionInputs, 1)
    /\ UNCHANGED <<engineVars, evalVars, gaVars, editorVars>>
DecisionAnswer ==
    ServiceAnswers(1, Outcomes) /\ UNCHANGED <<engineVars, evalVars, gaVars, editorVars>>
DecisionReturn ==
    DecisionReturned(1) /\ UNCHANGED <<engineVars, evalVars, gaVars, editorVars>>
ClearCache ==
    clearDecisionCache /\ UNCHANGED <<engineVars, evalVars, gaVars, editorVars>>

DecisionNext ==
    DecisionCall \/ DecisionAnswer \/ DecisionReturn \/ ClearCache

DecisionSpec == DecisionInit /\ [][DecisionNext]_vars

\* Calls that overlap, as those of the activations of updateCustomers do:
\* a customer in the one aisle of DairyLayout or in front of two sections.
\* A service that answers does so in the end.
CacheInputs ==
    [visibleSections : {<<Section("Dairy", 3, 1)>>, <<Section("Dairy", 5, 0)>>,
                        <<Section("Dairy", 3, 1), Section("Bakery", 5, 0)>>,
                        <<Section("Bakery", 5, 0), Section("Dairy", 3, 1)>>},
     shoppingList : {<<"Dairy">>, <<"Dairy", "Bakery">>, <<"Bakery", "Dairy">>},
     collected : {<<>>, <<"Dairy">>, <<"Dairy", "Bakery">>,
                  <<"Bakery", "Dairy">>}]
CacheOutcomes ==
    {o \in Outcomes : o.kind = "error" \/ o.text \in {<<"dairy">>, <<"bakery">>}}

CacheCall ==
    (\E r \in 1..MaxRequests : CallMakeAIDecision(r, CacheInputs, 1))
        /\ UNCHANGED <<engineVars, evalVars, gaVars, editorVars>>
CacheAnswer ==
    (\E r \in 1..MaxRequests : ServiceAnswers(r, CacheOutcomes))
        /\ UNCHANGED <<engineVars, evalVars, gaVars, editorVars>>
CacheReturn ==
    (\E r \in 1..MaxRequests : DecisionReturned(r))
        /\ UNCHANGED <<engineVars, evalVars, gaVars, editorVars>>

CacheNext == CacheCall \/ CacheAnswer \/ CacheReturn \/ ClearCache

CacheSpec ==
    /\ DecisionInit
    /\ [][CacheNext]_vars
    /\ WF_vars(CacheAnswer)

\* One crossover(parents) call, with two survivors as parents: a layout of
\* two sections and two checkouts, and children of it that mutate has
\* changed.
TwoCheckoutLayout ==
    [TwoSectionLayout EXCEPT !.checkouts = <<Checkout(150), Checkout(170)>>]
CrossoverLayouts ==
    {TwoCheckoutLayout} \cup
    {m \in MutateChild(TwoCheckoutLayout) :
        /\ m.products[1].x # TwoCheckoutLayout.products[1].x
        /\ m.checkouts # TwoCheckoutLayout.checkouts}

CrossoverInit ==
    /\ Constructed({DairyLayout})
    /\ NotEvaluating
    /\ NoDecisions
    /\ EditorClosed
    /\ originalLayout = TwoCheckoutLayout
    /\ progress = <<>>
    /\ generation = 0
    /\ bestLayout = <<>>
    /\ bestFitness = MinusInfinity
    /\ optimizing = TRUE
    /\ population = <<>>
    /\ evaluations = <<>>
    /\ evaluated = <<>>
    /\ member = 1
    /\ maxGenerations = MaxGenerations
    /\ pc = "crossover"
    /\ result = <<>>
    /\ thrown = FALSE
    /\ objects = NoObjects
    /\ \E p1 \in CrossoverLayouts, p2 \in CrossoverLayouts :
           crossing = [NoCrossing EXCEPT
                          !.parents = <<Evaluation(p1, 0), Evaluation(p2, 0)>>]

\* One iteration of the loop of crossover(parents).
CrossoverIteration ==
    /\ pc = "crossover"
    /\ Len(crossing.children) < populationSize - survivorCount
    /\ \E a \in DOMAIN crossing.parents, b \in DOMAIN crossing.parents :
       \E mixPoint \in MixPoints(crossing.parents[a].layout),
          taken \in SUBSET DOMAIN crossing.parents[a].layout.checkouts :
           crossing' =
               [crossing EXCEPT
                   !.children =
                       Append(@, ChildOf(crossing.parents[a].layout,
                                         crossing.parents[b].layout,
                                         mixPoint, taken)),
                   !.draw = <<[parent1 |-> a, parent2 |-> b,
                               mixPoint |-> mixPoint, taken |-> taken]>>]
    /\ UNCHANGED <<originalLayout, progress, generation, bestLayout,
                   bestFitness, optimizing, population, evaluations, evaluated,
                   member, maxGenerations, pc, result, thrown>>
    /\ UNCHANGED <<engineVars, evalVars, aiVars, editorVars, objects>>

CrossoverSpec == CrossoverInit /\ [][CrossoverIteration]_vars

-----------------------------------------------------------------------------
(* Properties of the simulation engine. *)

StatusOrder == <<"shopping", "checkout", "exiting", "exited">>
StatusRank(s) == CHOOSE i \in DOMAIN StatusOrder : StatusOrder[i] = s

NoDuplicate(s) == \A i, j \in DOMAIN s : s[i] = s[j] => i = j

\* C1: no step of the engine (a frame, a returning decision call with the
\* arrival handling that follows it) moves the status of a customer to an
\* earlier stage of shopping -> checkout -> exiting -> exited.
C1_StatusOnlyForward ==
    [][\A i \in DOMAIN agents :
          StatusRank(agents'[i].status) >= StatusRank(agents[i].status)]_vars

\* C2: in the layout with the single section "Dairy", with frames and
\* decisions that keep coming, a customer that has waited its 5 s at the
\* checkout (status exiting, no wait left) goes on from there and does not
\* start a wait again, and eventually a customer reaches the exit and gets
\* status exited, and completedCustomers leaves 0.
C2_DairyCustomerExits ==
    /\ [][\A i \in DOMAIN agents :
             (agents[i].status = "exiting" /\ agents[i].waitTime <= 0)
                 => agents'[i].waitTime <= 0]_vars
    /\ <>(/\ \E i \in DOMAIN agents : agents[i].status = "exited"
          /\ metrics.completedCustomers >= 1)

\* C3: in every snapshot handed to onUpdate, the counts of the congestion
\* grid add up to the number of customers of the snapshot.
C3_GridSumIsCustomerCount ==
    SumFn(lastUpdate.metrics.congestionData) = Len(lastUpdate.customers)

\* C3 witness: a snapshot of three customers, two of them in one cell and
\* one in another.
C3_ThreeCustomersTwoCells ==
    /\ Len(lastUpdate.customers) = 3
    /\ Cardinality(DOMAIN lastUpdate.metrics.congestionData) >= 2
    /\ \E k \in DOMAIN lastUpdate.metrics.congestionData :
           lastUpdate.metrics.congestionData[k] >= 2

\* C4: the collected items of every customer are on its shopping list and
\* hold no label twice, and no step (the sort() of getCacheKey included)
\* takes an item out of them.
C4_CollectedWithinListAndGrowing ==
    /\ [](\A i \in DOMAIN agents :
             /\ Range(agents[i].collected) \subseteq
                    Range(agents[i].shoppingList)
             /\ NoDuplicate(agents[i].collected))
    /\ [][\A i \in DOMAIN agents :
             Range(agents[i].collected) \subseteq
                 Range(agents'[i].collected)]_vars

\* C4 witness: a customer was sent to a section whose label is not on its
\* list and has arrived there.
C4_ArrivedAtUnlistedSection ==
    \E i \in DOMAIN agents :
        /\ agents[i].targetType = "product"
        /\ Abs(agents[i].targetX - agents[i].x) < reachedDistance
        /\ agents[i].lastDecisionTime > 0
        /\ ~Includes(agents[i].shoppingList, agents[i].currentTarget.label)

\* C11: start() resets the state: the step that starts the engine leaves no
\* active customer, zeroed metrics and a simulated time that holds at most
\* the elapsed time of its first frame; and the spawn timer is reset, so
\* that a running engine whose simulated time has reached the spawn interval
\* has spawned a customer since its start, as a new engine has.
C11_StartResetsState ==
    /\ [][(~isRunning /\ isRunning') =>
             /\ customers' = <<>>
             /\ metrics' = NewMetrics
             /\ time' \in DeltaTimes \cup {0}]_vars
    /\ []((isRunning /\ time >= spawnInterval) =>
              metrics.totalCustomers >= 1)

\* C12: a step that halts a running engine either leaves the customers, the
\* simulated time and the metrics as they are (pause) or leaves no active
\* customer and the simulated time 0 (stop); and as long as the engine is
\* halted no tick is executed: no spawn check (the spawn timer and the
\* count of customers stay), no rebuild of the congestion grid and the
\* bottlenecks, no onUpdate call, and the time only changes by stop().
C12_HaltedEngineDoesNotStep ==
    /\ [][(isRunning /\ ~isRunning') =>
             \/ /\ customers' = customers
                /\ agents' = agents
                /\ time' = time
                /\ metrics' = metrics
             \/ /\ customers' = <<>>
                /\ time' = 0]_vars
    /\ [][(~isRunning /\ ~isRunning') =>
             /\ lastUpdate' = lastUpdate
             /\ lastSpawnTime' = lastSpawnTime
             /\ metrics' = metrics
             /\ Len(agents') = Len(agents)
             /\ time' = time \/ (time' = 0 /\ customers' = <<>>)]_vars

\* C12 witness: the engine was paused after a customer was spawned, with
\* an updateCustomers() activation still waiting for its decision.
C12_PausedWithCustomers ==
    /\ ~isRunning
    /\ customers # <<>>
    /\ time >= spawnInterval
    /\ passes # <<>>

\* A layout without entrance, exit or product section, or with an
\* opening whose wall index is the index of no wall.
Malformed(lay) ==
    \/ lay.entrances = <<>>
    \/ lay.exits = <<>>
    \/ lay.products = <<>>
    \/ \E o \in Range(lay.entrances) \cup Range(lay.exits) :
           (o.wallIndex + 1) \notin DOMAIN lay.walls

\* C13: start() does not proceed on a malformed layout: the engine of such
\* a layout never runs, and hands no snapshot to onUpdate.
C13_MalformedLayoutIsRefused ==
    Malformed(layout) => (~isRunning /\ lastUpdate = NoUpdate)

-----------------------------------------------------------------------------
(* Properties of the optimizer. *)

\* C5: from step to step of an optimize() run the retained best fitness
\* never gets lower, and the retained best layout changes only together
\* with a strictly higher fitness; the best fitness of the progress events
\* is non-decreasing from each event to the next, and the result is not
\* below any of them.
C5_BestFitnessNeverDecreases ==
    /\ [][/\ bestFitness' >= bestFitness
          /\ bestLayout' # bestLayout => bestFitness' > bestFitness]_vars
    /\ [](\A i, j \in DOMAIN progress :
             i < j => progress[i].bestFitness <= progress[j].bestFitness)
    /\ [](\A i \in DOMAIN progress, r \in DOMAIN result :
             progress[i].bestFitness <= result[r].fitness)

\* C5 witness: the second generation is over, and its best member is below
\* the best fitness retained from the first one.
C5_SecondGenerationWorse ==
    /\ Len(progress) = 2
    /\ evaluated[1].fitness < bestFitness
    /\ progress[2].bestFitness = bestFitness

\* C6: optimize(1) returns a best layout that is equal to a member of the
\* initial population (the original or one of its variations, all of them
\* scored), and a best fitness that is the greatest fitness found for them.
C6_OneGenerationReturnsBestOfInitial ==
    (pc = "returned" /\ maxGenerations = 1) =>
        /\ Len(evaluated) = populationSize
        /\ \A i \in DOMAIN evaluated :
               /\ evaluated[i].layout \in
                      {originalLayout} \cup createVariation(originalLayout)
               /\ evaluated[i].fitness <= result[1].fitness
        /\ \E i \in DOMAIN evaluated :
               /\ result[1].optimizedLayout = <<evaluated[i].layout>>
               /\ result[1].fitness = evaluated[i].fitness

\* C6 witness: optimize(1) has returned, the members were scored
\* differently, and the original layout, which is evaluated first, is not
\* among the best ones.
C6_ReturnedVariationAsBest ==
    /\ pc = "returned"
    /\ maxGenerations = 1
    /\ \E i \in DOMAIN evaluated :
           /\ evaluated[i].layout = originalLayout
           /\ evaluated[i].fitness < result[1].fitness
    /\ result[1].optimizedLayout # <<originalLayout>>

\* C7: once stop() has been called during optimize(n), optimize() returns.
C7_StoppedOptimizeReturns ==
    (pc = "evaluating" /\ ~optimizing) ~> (pc = "returned")

\* C8: once the timer callback of the evaluation of a member has thrown,
\* the evaluation of this member comes to an end (with the worst fitness
\* for the member) and optimize() goes on to the next member, to the rest
\* of the generation or to its return.
C8_FailedEvaluationEnds ==
    \A k \in 1..populationSize, g \in 0..MaxGenerations :
        (thrown /\ pc = "evaluating" /\ member = k /\ generation = g)
            ~> (pc = "returned" \/ member # k \/ generation # g)

\* C9: optimize(maxGenerations) returns.
C9_OptimizeReturns == <>(pc = "returned")

\* C10: the promise of evaluateLayout is fulfilled only when 30 customers
\* have completed or the 5 minutes of the evaluation have been counted.
C10_EvaluationEndsAtTargetOrMaxTime ==
    evaluation.state = "fulfilled" =>
        \/ evaluation.completedCustomers >= targetCustomers
        \/ simulationTime >= maxTime

-----------------------------------------------------------------------------
(* Properties of the decision provider. *)

\* A reply that names nothing the customer can use: no content, or a text
\* with neither 'checkout' nor 'exit' nor the name of a section in sight.
NamesNothing(text, visibleSections) ==
    \/ text = <<>>
    \/ /\ ~Contains(text, <<"checkout">>)
       /\ ~Contains(text, <<"exit">>)
       /\ \A i \in DOMAIN visibleSections :
              /\ ~Contains(text, Words(visibleSections[i].name))
              /\ ~Contains(Words(visibleSections[i].name), text)

ServiceFailed(q) ==
    /\ q.state = "resolved"
    /\ \/ q.outcome.kind \in {"error", "notOk"}
       \/ /\ q.outcome.kind = "reply"
          /\ NamesNothing(q.outcome.text, q.visibleSections)

\* C14: a makeAIDecision call whose service failed (the fetch threw, both
\* services answered with a status that is not OK, or the reply names
\* nothing usable) has resolved with the decision makeFallbackDecision
\* gives for the arguments of the call.
C14_FailureFallsBack ==
    \A r \in DOMAIN requests :
        ServiceFailed(requests[r]) =>
            requests[r].decision =
                makeFallbackDecision(requests[r].visibleSections,
                                     requests[r].shoppingList,
                                     requests[r].collected)

\* A call with two sections in sight fell back to one of them after both
\* services had refused, a second one after a reply naming nothing.
C14_FellBackToASection ==
    /\ ServiceFailed(requests[1])
    /\ requests[1].outcome.kind \in {"notOk", "reply"}
    /\ requests[1].outcome.text \in {<<>>, <<"nothing">>}
    /\ Len(requests[1].visibleSections) = 2
    /\ requests[1].decision = Decision("product",
                                       requests[1].visibleSections[2])
    /\ requests[1].shoppingList = <<"Dairy", "Bakery">>

\* C15: every makeAIDecision call that is waiting for its service comes to
\* an end, whether the service answers or not.
C15_RequestCompletes ==
    \A r \in 1..MaxRequests :
        (requests[r].state = "pending") ~> (requests[r].state # "pending")

\* A section whose label matches a list item that is not collected yet,
\* with the matching of labels that makeFallbackDecision uses.
MatchesUncollected(section, shoppingList, collected) ==
    \E i \in DOMAIN shoppingList :
        /\ ~Includes(collected, shoppingList[i])
        /\ \/ LabelIncludes(shoppingList[i], section.name)
           \/ LabelIncludes(section.name, shoppingList[i])

\* C16: the decision of makeFallbackDecision is checkout when every list
\* item is collected; else a visible section whose label matches an
\* uncollected list item, with no such section less crowded, or as crowded
\* and nearer; else, when no visible section matches, a visible section
\* with none nearer; else, when nothing is visible, checkout.
C16_FallbackDecision ==
    LET q == requests[1]
        d == q.decision
        matching ==
            {s \in Range(q.visibleSections) :
                MatchesUncollected(s, q.shoppingList, q.collected)}
    IN  (q.state = "resolved" /\ q.outcome.kind \in {"error", "notOk"}) =>
            IF HasEverything(q.shoppingList, q.collected)
            THEN d = Decision("checkout", NoSection)
            ELSE IF matching # {}
            THEN /\ d.type = "product"
                 /\ d.target \in matching
                 /\ \A m \in matching : ~LessCrowded(m, d.target)
            ELSE IF q.visibleSections # <<>>
            THEN /\ d.type = "product"
                 /\ d.target \in Range(q.visibleSections)
                 /\ \A v \in Range(q.visibleSections) : ~Nearer(v, d.target)
            ELSE d = Decision("checkout", NoSection)

\* The labels of a sequence as a multiset: how often each label occurs.
Multiset(labels) ==
    [l \in Range(labels) |-> Cardinality({i \in DOMAIN labels : labels[i] = l})]
SectionNames(q) == [i \in DOMAIN q.visibleSections |-> q.visibleSections[i].name]
SameLabels(p, q) ==
    /\ Multiset(SectionNames(p)) = Multiset(SectionNames(q))
    /\ Multiset(p.shoppingList) = Multiset(q.shoppingList)
    /\ Multiset(p.collected) = Multiset(q.collected)

\* C17: two makeAIDecision calls have the same cache key exactly when the
\* labels of their visible sections, their shopping lists and their
\* collected items are the same multisets, whatever the orders, the
\* distances and the crowd counts.
C17_KeyOfLabelMultisets ==
    \A a, b \in 1..MaxRequests :
        (requests[a].state # "none" /\ requests[b].state # "none") =>
            (requests[a].key = requests[b].key
                <=> SameLabels(requests[a], requests[b]))

\* Two calls in progress have one key, with the sections, the list and the
\* collected items each in two orders.
C17_SameKeyInAnotherOrder ==
    /\ requests[1].state = "pending" /\ requests[2].state = "pending"
    /\ requests[1].key = requests[2].key
    /\ Len(requests[1].visibleSections) = 2
    /\ requests[1].visibleSections # requests[2].visibleSections
    /\ requests[1].shoppingList # requests[2].shoppingList
    /\ requests[1].collected # requests[2].collected

\* A step that is a makeAIDecision call of request r.
Called(r) == requests[r].state = "none" /\ requests'[r].state # "none"

\* A call finds its key in the cache and returns the decision stored there,
\* without a request to a service; a call that does not find its key goes
\* to the service.
CallsUseTheCache ==
    \A r \in 1..MaxRequests :
        Called(r) =>
            IF requests'[r].key \in DOMAIN decisionCache
            THEN /\ requests'[r].state = "resolved"
                 /\ requests'[r].outcome.kind = "none"
                 /\ requests'[r].decision = decisionCache[requests'[r].key]
            ELSE requests'[r].state = "pending"

\* A decision stored under a key is the decision stored under this key
\* after the step: to the same place, and to the section of the same name.
StoredDecisionsStay ==
    \A k \in DOMAIN decisionCache :
        /\ k \in DOMAIN decisionCache'
        /\ decisionCache'[k].type = decisionCache[k].type
        /\ decisionCache'[k].target.name = decisionCache[k].target.name

\* C18: a decision of the service that is stored under a key stays the
\* decision of this key up to the next clearDecisionCache(), and every
\* call with this key returns it without a request to a service; after a
\* clearDecisionCache() the cache is empty and a call goes to the service.
C18_CachedDecisionIsKept ==
    /\ [][CallsUseTheCache]_vars
    /\ [][StoredDecisionsStay \/ (decisionCache' = <<>> /\ UNCHANGED requests)]_vars

-----------------------------------------------------------------------------
(* Properties of the progress events and of crossover. *)

\* The fitness values of a generation, added up from the last one.
RECURSIVE TotalFitness(_)
TotalFitness(es) ==
    IF es = <<>> THEN 0
    ELSE TotalFitness(SubSeq(es, 1, Len(es) - 1)) + es[Len(es)].fitness

\* The event that onProgress gets in this step, for the generation whose
\* members are in evaluated after the step.
EventOfGeneration ==
    LET e == progress'[Len(progress')]
        before == IF progress = <<>>
                  THEN [bestFitness |-> MinusInfinity, bestLayout |-> <<>>]
                  ELSE progress[Len(progress)]
        scores == {evaluated'[i].fitness : i \in DOMAIN evaluated'}
    IN  /\ e.generation = Len(progress)
        /\ e.generation = generation
        /\ Len(evaluated') = populationSize
        /\ e.bestFitness \in scores \cup {before.bestFitness}
        /\ \A f \in scores \cup {before.bestFitness} : f <= e.bestFitness
        /\ IF e.bestFitness > before.bestFitness
           THEN \E i \in DOMAIN evaluated' :
                    /\ evaluated'[i].fitness = e.bestFitness
                    /\ e.bestLayout = <<evaluated'[i].layout>>
           ELSE e.bestLayout = before.bestLayout
        /\ e.avgFitness * Len(evaluated') <= TotalFitness(evaluated')
        /\ TotalFitness(evaluated') < (e.avgFitness + 1) * Len(evaluated')

\* C19: onProgress is called once for each generation optimize() goes
\* through, with the generations 0, 1, ... in this order; the event of a
\* generation holds the best fitness of all members evaluated up to it, a
\* layout that scored it, and the mean fitness of the members of the
\* generation.
C19_OneEventPerGeneration ==
    /\ [](Len(progress) = generation)
    /\ [](\A r \in DOMAIN result : Len(progress) = result[r].generations)
    /\ [][\/ progress' = progress
          \/ /\ Len(progress') = Len(progress) + 1
             /\ SubSeq(progress', 1, Len(progress)) = progress
             /\ generation' = generation + 1
             /\ EventOfGeneration]_vars

\* optimize(2) has returned after two events; the second generation found
\* a better layout than the first, and its mean is below its best.
C19_TwoEventsSecondBetter ==
    /\ pc = "returned"
    /\ Len(progress) = 2
    /\ progress[2].bestFitness > progress[1].bestFitness
    /\ progress[2].bestLayout # progress[1].bestLayout
    /\ progress[2].avgFitness < progress[2].bestFitness

\* C20: a child that crossover makes of two parents that are the same
\* layout is equal to this layout, whatever the index the products are
\* mixed from and whichever checkouts are taken from the second parent.
C20_CrossoverWithItself ==
    \A d \in Range(crossing.draw) :
        LET parent1 == crossing.parents[d.parent1].layout
            parent2 == crossing.parents[d.parent2].layout
            child == crossing.children[Len(crossing.children)]
        IN  parent1 = parent2 => child = parent1

\* The two survivors are one layout, of two sections at two places and two
\* checkouts; the child was made of the first survivor and the second,
\* with the second section and the first checkout of the second.
C20_ChildOfEqualParents ==
    /\ crossing.draw # <<>>
    /\ crossing.parents[1].layout = crossing.parents[2].layout
    /\ crossing.parents[1].layout # TwoCheckoutLayout
    /\ crossing.draw[1].parent1 = 1 /\ crossing.draw[1].parent2 = 2
    /\ crossing.draw[1].mixPoint = 1
    /\ crossing.draw[1].taken = {1}
    /\ Len(crossing.children) = 2

-----------------------------------------------------------------------------
(* Properties of the engine in a layout, of its frames and of its          *)
(* snapshots.                                                              *)

\* C21: in a layout without entrance no customer is ever created, by the
\* frames or by the spawnCustomer() calls of an evaluation: no customer is
\* active, the three counters are 0 and a running engine has its next
\* frame requested.
C21_NoEntranceNoCustomer ==
    layout.entrances = <<>> =>
        /\ agents = <<>>
        /\ customers = <<>>
        /\ metrics.totalCustomers = 0
        /\ metrics.completedCustomers = 0
        /\ metrics.avgShoppingTime = 0
        /\ getMetrics(World).avgShoppingTime = 0
        /\ isRunning => animationFrame
        /\ ~thrown

\* The evaluation of a layout without entrance has come to its end, after
\* thirty spawnCustomer() calls of the timer and frames that were due to
\* spawn.
C21_EvaluatedWithoutEntrance ==
    /\ layout.entrances = <<>>
    /\ evaluation.state = "fulfilled"
    /\ customersSpawned = targetCustomers
    /\ lastSpawnTime >= spawnInterval

\* The engine state W without the suspended activation k.
WithoutPass(W, k) ==
    [W EXCEPT !.passes = SubSeq(@, 1, k - 1) \o SubSeq(@, k + 1, Len(@))]

\* The decision of activation k returns, then the frame deltaTime later
\* runs; no customer is due to be created in this frame, so that no random
\* value is drawn by it.
ReturnThenFrame(k, deltaTime, decision) ==
    LET returned == resumeCustomers(WithoutPass(World, k), layout, passes[k],
                                    time, decision)
    IN  CHOOSE r \in run(returned, layout, time, lastSpawnTime, deltaTime) : TRUE

\* The same frame runs, then the same decision returns.
FrameThenReturn(k, deltaTime, decision) ==
    LET r == CHOOSE r \in run(World, layout, time, lastSpawnTime, deltaTime) :
                 TRUE
    IN  resumeCustomers(WithoutPass(r.world, k), layout, r.world.passes[k],
                        r.time, decision)

\* C22: a run is determined by the layout, the decision provider, the
\* deltaTime values and the random values.  With the provider
\* makeFallbackDecision, one more frame of a given deltaTime and no random
\* value drawn, the customers are the same whether the decision that is
\* awaited returns before this frame or after it.
C22_SameInputsSameCustomers ==
    \A k \in DOMAIN passes, deltaTime \in DeltaTimes :
        LET id == passes[k].arr[passes[k].idx]
            decision == makeFallbackDecision(passes[k].visible,
                                             agents[id].shoppingList,
                                             agents[id].collected)
        IN  (/\ isRunning /\ animationFrame
             /\ time + deltaTime - lastSpawnTime < spawnInterval)
            => ReturnThenFrame(k, deltaTime, decision).world.agents
                   = FrameThenReturn(k, deltaTime, decision).agents

\* What the snapshot last handed to onUpdate contains: its array is a copy
\* of this.customers, its elements are the engine's own customer objects.
SnapshotCustomers ==
    [i \in DOMAIN lastUpdate.customers |-> agents[lastUpdate.customers[i]]]

\* C23: a snapshot that was delivered is immutable: as long as no newer
\* snapshot replaces it, no step of the engine changes the customers it
\* contains.
C23_SnapshotImmutable ==
    [][lastUpdate' = lastUpdate => SnapshotCustomers' = SnapshotCustomers]_vars

-----------------------------------------------------------------------------
(* Two evaluations of evaluatePopulation(), one after the other.  The first *)
(* is taken up LateTime before it reaches maxTime, its customers never      *)
(* having left; of these customers one is followed.                         *)

NewWorld ==
    [agents |-> <<>>, customers |-> <<>>, metrics |-> NewMetrics,
     passes |-> <<>>]

\* An evaluateLayout that would go on with the engine of the evaluation
\* before it.
previousEngine(old) == old

\* new SimulationEngine(layout, ...) and the reset of engine.start(): what
\* the first frame of an evaluation runs on, old being the engine of the
\* evaluation before it.
evaluationEngine(old) ==
    [NewWorld EXCEPT !.customers = <<>>, !.metrics = NewMetrics]

IsolationLayouts == {DairyLayout, TwoSectionLayout}

IsolationInit ==
    /\ layout = DairyLayout
    /\ time = 0
    /\ lastSpawnTime = 0
    /\ isRunning = TRUE
    /\ animationFrame = TRUE
    /\ \E W \in spawnCustomer(NewWorld, DairyLayout, 0) :
           /\ agents = W.agents
           /\ customers = W.customers
           /\ metrics = W.metrics
           /\ passes = W.passes
    /\ lastUpdate = NoUpdate
    /\ simulationTime = maxTime - LateTime
    /\ customersSpawned = targetCustomers
    /\ checkInterval = TRUE
    /\ evaluation = [NoEvaluation EXCEPT !.state = "pending"]
    /\ earlier = <<>>
    /\ NoDecisions
    /\ EditorClosed
    /\ NewOptimizer(DairyLayout)
    /\ NotFollowed

\* evaluatePopulation goes on to its next layout once the promise of the
\* evaluation before is fulfilled; the engine of that evaluation stays
\* referenced by its suspended activations.
NextEvaluation ==
    /\ evaluation.state = "fulfilled"
    /\ earlier = <<>>
    /\ earlier' = <<[layout |-> layout, world |-> World, time |-> time,
                     isRunning |-> isRunning,
                     animationFrame |-> animationFrame,
                     checkInterval |-> checkInterval, resumed |-> 0]>>
    /\ \E lay \in IsolationLayouts, deltaTime \in DeltaTimes \cup {0} :
           /\ ~runThrows(lay, deltaTime, 0, <<>>)
           /\ layout' = lay
           /\ \E r \in run(evaluationEngine(World), lay, 0, 0, deltaTime) :
                  SetEngine(r)
    /\ isRunning' = TRUE
    /\ animationFrame' = TRUE
    /\ simulationTime' = 0
    /\ customersSpawned' = 0
    /\ checkInterval' = TRUE
    /\ evaluation' = [NoEvaluation EXCEPT !.state = "pending"]
    /\ UNCHANGED <<gaVars, aiVars, editorVars>>

\* A decision awaited by an activation of the engine of the evaluation
\* before returns: the activation goes on, on the engine it belongs to.
EarlierResume ==
    /\ earlier # <<>>
    /\ \E k \in DOMAIN earlier[1].world.passes :
           LET e == earlier[1]
               p == e.world.passes[k]
               id == p.arr[p.idx]
           IN  \E decision \in makeAIDecision(
                                    p.visible, e.world.agents[id].shoppingList,
                                    e.world.agents[id].collected) :
                   earlier' = <<[e EXCEPT
                       !.world = resumeCustomers(WithoutPass(e.world, k),
                                                 e.layout, p, e.time,
                                                 decision),
                       !.resumed = 1]>>
    /\ UNCHANGED <<engineVars, simulationTime, customersSpawned,
                   checkInterval, evaluation, gaVars, aiVars, editorVars>>

IsolationTick == time + checkPeriod <= IsolationMaxTime /\ EngineTick
IsolationCheck ==
    /\ earlier # <<>> => simulationTime < IsolationSimulationTime
    /\ CheckInterval

IsolationNext ==
    \/ IsolationTick
    \/ EngineResume
    \/ IsolationCheck
    \/ NextEvaluation
    \/ EarlierResume

IsolationSpec == IsolationInit /\ [][IsolationNext]_vars

-----------------------------------------------------------------------------
(* The fitness of an evaluation.  As in fitness, avgCongestion and the      *)
(* fitness are in tenths.                                                   *)

MetricValues ==
    [avgCongestion : {0, 10, 15}, bottleneckCount : 0..2,
     avgShoppingTime : 0..2]

\* m1 is higher than m2 in one of the three metrics and equal in the others.
HigherInOne(m1, m2) ==
    \E f \in DOMAIN m1 :
        /\ m1[f] > m2[f]
        /\ \A g \in DOMAIN m1 \ {f} : m1[g] = m2[g]

\* C25: the fitness an evaluation is fulfilled with is
\* 1000 - 5*avgCongestion - 10*bottleneckCount - 2*avgShoppingTime of the
\* metrics of the engine of this evaluation, and the fitness is strictly
\* lower for metrics that are higher in one of the three and equal in the
\* others.
C25_FitnessOfOwnMetrics ==
    /\ evaluation.state = "fulfilled"
        => LET m == getMetrics(World)
           IN  evaluation.fitness = 10000 - 5 * m.avgCongestion
                                          - 100 * m.bottleneckCount
                                          - 20 * m.avgShoppingTime
    /\ \A m1, m2 \in MetricValues :
           HigherInOne(m1, m2) => fitness(m1) < fitness(m2)

\* C25: an evaluation is fulfilled whose engine has a congested cell.
C25_FulfilledWithCongestion ==
    /\ evaluation.state = "fulfilled"
    /\ getMetrics(World).avgCongestion > 0

-----------------------------------------------------------------------------
(* The Editor component, in its two versions.  Of an element the kind is    *)
(* kept, and of an entrance or exit of the second version the index of its  *)
(* wall; positions and sizes are left out.                                  *)

ElementTypes == {"wall", "entrance", "exit", "checkout", "product"}

\* The lengths of the walls drawn, where along the line of its wall a click
\* falls (from 30 before its start to 30 after its end), and the length
\* entered at the prompt: 0 stands for an entry parseInt makes nothing of.
WallLengths == {100}
ClickedAlong == {-20, 50, 95}
EnteredLengths == {0, 200}
minOpeningLength == 10

NoEntrance == "Please add at least one entrance!"
NoExit == "Please add at least one exit!"
NoProduct == "Please add at least one product section!"
NotAll ==
    "Please add at least: one entrance, one exit, and one product section"
EntranceOffWall == "Please place entrance near a wall (within 30px)"
ExitOffWall == "Please place exit near a wall (within 30px)"

EmptyLayout(version) ==
    IF version = 1 THEN [elements |-> <<>>]
    ELSE [walls |-> <<>>, entrances |-> <<>>, exits |-> <<>>,
          checkouts |-> 0, products |-> 0]

Mounted(version) ==
    [version |-> version, layout |-> EmptyLayout(version), alert |-> "",
     started |-> FALSE, event |-> "mount", drawn |-> 0]

ElementCount(version, lay) ==
    IF version = 1 THEN Len(lay.elements)
    ELSE Len(lay.walls) + Len(lay.entrances) + Len(lay.exits)
         + lay.checkouts + lay.products

Without(seq, i) == SubSeq(seq, 1, i - 1) \o SubSeq(seq, i + 1, Len(seq))

\* The kinds of element of which the layout has none.
Missing(version, lay) ==
    IF version = 1
    THEN {t \in {"entrance", "exit", "product"} :
             ~\E e \in DOMAIN lay.elements : lay.elements[e] = t}
    ELSE {t \in {"entrance", "exit", "product"} :
             \/ t = "entrance" /\ Len(lay.entrances) = 0
             \/ t = "exit" /\ Len(lay.exits) = 0
             \/ t = "product" /\ lay.products = 0}

\* A handleStartSimulation that validates nothing.
startUnchecked(version, lay) == [alert |-> "", started |-> TRUE]

\* handleStartSimulation of either version: the alert it shows, if any, and
\* whether it calls onStartSimulation.
handleStartSimulation(version, lay) ==
    LET missing == Missing(version, lay)
    IN  IF version = 1
        THEN IF "entrance" \in missing
             THEN [alert |-> NoEntrance, started |-> FALSE]
             ELSE IF "exit" \in missing
             THEN [alert |-> NoExit, started |-> FALSE]
             ELSE IF "product" \in missing
             THEN [alert |-> NoProduct, started |-> FALSE]
             ELSE [alert |-> "", started |-> TRUE]
        ELSE IF Len(lay.entrances) = 0 \/ Len(lay.exits) = 0
                \/ lay.products = 0
             THEN [alert |-> NotAll, started |-> FALSE]
             ELSE [alert |-> "", started |-> TRUE]

\* The first version: addElement, deleteSelected, clearAll.
addElement ==
    /\ editor.version = 1 /\ ~editor.started
    /\ Len(editor.layout.elements) < MaxElements
    /\ \E t \in ElementTypes :
           editor' = [editor EXCEPT !.layout.elements = Append(@, t),
                                    !.event = "add"]
    /\ UNCHANGED <<engineVars, evalVars, gaVars, aiVars>>

deleteSelected ==
    /\ editor.version = 1 /\ ~editor.started
    /\ \E i \in DOMAIN editor.layout.elements :
           editor' = [editor EXCEPT !.layout.elements = Without(@, i),
                                    !.event = "delete"]
    /\ UNCHANGED <<engineVars, evalVars, gaVars, aiVars>>

\* clearAll and handleClearAll, once confirmed.
clearAll ==
    /\ editor.version \in {1, 2} /\ ~editor.started
    /\ editor' = [editor EXCEPT !.layout = EmptyLayout(editor.version),
                                 !.event = "clear"]
    /\ UNCHANGED <<engineVars, evalVars, gaVars, aiVars>>

\* The second version.  A wall is kept as its length and the number it was
\* drawn as, which the source does not hold and which is there to tell
\* walls apart; an entrance or exit as its wallIndex, offset and length and
\* the number of the wall it was placed on.
\*
\* The opening handleCanvasClick makes on the wall at index, for a click
\* whose projection on the line of the wall is along from its start
\* (param * wallLength) and the length entered at the prompt.
NewOpening(walls, index, along, entered) ==
    LET wallLength == walls[index + 1].length
        length == IF entered = 0 THEN defaultOpeningLength ELSE entered
        clampedLength == Min(length, wallLength - along)
    IN  [wallIndex |-> index, offset |-> along,
         length |-> Max(clampedLength, minOpeningLength),
         wall |-> walls[index + 1].drawn]

\* An opening as long as was entered, wherever it starts.
NewOpeningAsEntered(walls, index, along, entered) ==
    [wallIndex |-> index, offset |-> along,
     length |-> IF entered = 0 THEN defaultOpeningLength ELSE entered,
     wall |-> walls[index + 1].drawn]

\* A click on the canvas with a tool.  near is the wall findNearestWall
\* gives for the place clicked: -1 when no wall is within reach.
handleCanvasClick ==
    /\ editor.version = 2 /\ ~editor.started
    /\ ElementCount(2, editor.layout) < MaxElements
    /\ \E tool \in ElementTypes, near \in -1..(Len(editor.layout.walls) - 1),
          along \in ClickedAlong, entered \in EnteredLengths,
          wallLength \in WallLengths :
         LET lay == editor.layout
         IN  editor' =
               IF tool = "wall"
               THEN IF editor.drawn < MaxWallsDrawn
                    THEN [editor EXCEPT
                             !.layout.walls =
                                 Append(@, [length |-> wallLength,
                                            drawn |-> editor.drawn + 1]),
                             !.drawn = @ + 1,
                             !.event = "add"]
                    ELSE editor
               ELSE IF tool = "entrance"
               THEN IF near = -1
                    THEN [editor EXCEPT !.alert = EntranceOffWall,
                                        !.event = "add"]
                    ELSE [editor EXCEPT
                             !.layout.entrances =
                                 Append(@, NewOpening(lay.walls, near, along,
                                                      entered)),
                             !.event = "add"]
               ELSE IF tool = "exit"
               THEN IF near = -1
                    THEN [editor EXCEPT !.alert = ExitOffWall,
                                        !.event = "add"]
                    ELSE [editor EXCEPT
                             !.layout.exits =
                                 Append(@, NewOpening(lay.walls, near, along,
                                                      entered)),
                             !.event = "add"]
               ELSE IF tool = "checkout"
               THEN [editor EXCEPT !.layout.checkouts = @ + 1,
                                   !.event = "add"]
               ELSE [editor EXCEPT !.layout.products = @ + 1,
                                   !.event = "add"]
    /\ UNCHANGED <<engineVars, evalVars, gaVars, aiVars>>

\* A deletion of a wall that leaves the wall indices as they are.
OnOtherWallsUnshifted(openings, index) ==
    SelectSeq(openings, LAMBDA o : o.wallIndex # index)

\* The openings that stay when wall index is deleted, with their new wall
\* indices.
OnOtherWalls(openings, index) ==
    LET kept == SelectSeq(openings, LAMBDA o : o.wallIndex # index)
    IN  [k \in DOMAIN kept |->
            IF kept[k].wallIndex > index
            THEN [kept[k] EXCEPT !.wallIndex = @ - 1]
            ELSE kept[k]]

handleDeleteElement ==
    /\ editor.version = 2 /\ ~editor.started
    /\ LET lay == editor.layout
       IN  \/ \E index \in 0..(Len(lay.walls) - 1) :
                editor' = [editor EXCEPT
                    !.layout.walls = Without(@, index + 1),
                    !.layout.entrances = OnOtherWalls(@, index),
                    !.layout.exits = OnOtherWalls(@, index),
                    !.event = "delete"]
           \/ \E i \in DOMAIN lay.entrances :
                editor' = [editor EXCEPT !.layout.entrances = Without(@, i),
                                         !.event = "delete"]
           \/ \E i \in DOMAIN lay.exits :
                editor' = [editor EXCEPT !.layout.exits = Without(@, i),
                                         !.event = "delete"]
           \/ /\ lay.products > 0
              /\ editor' = [editor EXCEPT !.layout.products = @ - 1,
                                          !.event = "delete"]
           \/ /\ lay.checkouts > 0
              /\ editor' = [editor EXCEPT !.layout.checkouts = @ - 1,
                                          !.event = "delete"]
    /\ UNCHANGED <<engineVars, evalVars, gaVars, aiVars>>

\* Start Simulation is clicked.
StartSimulation ==
    /\ editor.version \in {1, 2} /\ ~editor.started
    /\ LET done == handleStartSimulation(editor.version, editor.layout)
       IN  editor' = [editor EXCEPT !.alert = done.alert,
                                    !.started = done.started,
                                    !.event = "start"]
    /\ UNCHANGED <<engineVars, evalVars, gaVars, aiVars>>

\* App.handleBackToEditor: the Editor is mounted anew.
BackToEditor ==
    /\ editor.started
    /\ editor' = [Mounted(editor.version) EXCEPT !.event = "back"]
    /\ UNCHANGED <<engineVars, evalVars, gaVars, aiVars>>

EditorInit ==
    /\ Constructed({DairyLayout})
    /\ NotEvaluating
    /\ NoDecisions
    /\ NewOptimizer(DairyLayout)
    /\ NotFollowed
    /\ editor \in {Mounted(1), Mounted(2)}

EditorNext ==
    \/ addElement
    \/ deleteSelected
    \/ clearAll
    \/ handleCanvasClick
    \/ handleDeleteElement
    \/ StartSimulation
    \/ BackToEditor

EditorSpec == EditorInit /\ [][EditorNext]_vars

\* The kinds of element an alert of handleStartSimulation names.
Named(alert) ==
    IF alert = NoEntrance THEN {"entrance"}
    ELSE IF alert = NoExit THEN {"exit"}
    ELSE IF alert = NoProduct THEN {"product"}
    ELSE IF alert = NotAll THEN {"entrance", "exit", "product"}
    ELSE {}

\* C26: Start Simulation calls onStartSimulation only for a layout with an
\* entrance, an exit and a product section; for any other layout it shows
\* an alert that names a kind of element the layout lacks, and does not
\* call onStartSimulation.
C26_StartValidates ==
    LET missing == Missing(editor.version, editor.layout)
    IN  /\ editor.started => missing = {}
        /\ (editor.event = "start" /\ missing # {})
            => /\ ~editor.started
               /\ Named(editor.alert) \cap missing # {}
        /\ (editor.event = "start" /\ missing = {}) => editor.started

\* C26: Start Simulation was clicked in the second version on a layout
\* that has an entrance and lacks an exit or a product section.
C26_ClickedWithoutExit ==
    /\ editor.event = "start"
    /\ editor.version = 2
    /\ ~editor.started
    /\ "entrance" \notin Missing(editor.version, editor.layout)
    /\ Missing(editor.version, editor.layout) # {}

-----------------------------------------------------------------------------
(* Properties of the frames of the engine and of its decision requests.     *)

\* C27: a frame is one atomic update.  When a frame delivers its snapshot,
\* the activation of updateCustomers it started has finished, and no
\* activation of an earlier frame was still suspended when it began.
C27_FrameIsAtomic ==
    [][lastUpdate' # lastUpdate => (passes = <<>> /\ passes' = <<>>)]_vars

\* The customer whose decision the suspended activation p awaits.
Awaited(p) == p.arr[p.idx]

\* C28: a customer has one decision request outstanding at most, so that
\* its requests are a decision interval apart: no two suspended
\* activations of updateCustomers await a decision for the same customer.
C28_OneRequestPerCustomer ==
    \A j, k \in DOMAIN passes :
        j # k => Awaited(passes[j]) # Awaited(passes[k])

\* An entrance of the layout is on a wall the layout has, walls being
\* counted from 0.
HasEntranceOnWall ==
    \E e \in DOMAIN layout.entrances :
        layout.entrances[e].wallIndex \in 0..(Len(layout.walls) - 1)

\* C29: a frame in which the spawn interval has passed since the last
\* spawn, with fewer customers than the maximum and an entrance on a wall
\* of the layout, creates one customer and counts it in totalCustomers.
C29_SpawnsWhenDue ==
    [][(/\ time' > time
        /\ time' - lastSpawnTime >= spawnInterval
        /\ Len(customers) < maxCustomers
        /\ HasEntranceOnWall)
       => /\ metrics'.totalCustomers = metrics.totalCustomers + 1
          /\ Len(agents') = Len(agents) + 1]_vars

-----------------------------------------------------------------------------
(* Properties of the populations of the optimizer.                          *)

-----------------------------------------------------------------------------
(* The congestion map of an engine with up to MaxCrowd customers, each in   *)
(* one of three cells.                                                      *)

CrowdPositions == {20, 60, 120}

CongestionInit ==
    /\ layout = DairyLayout
    /\ time = 0
    /\ lastSpawnTime = 0
    /\ isRunning = TRUE
    /\ animationFrame = TRUE
    /\ \E n \in 0..MaxCrowd :
           \E at \in [1..n -> CrowdPositions] :
               /\ agents = [i \in 1..n |->
                               NewCustomer(at[i], 30, <<"Dairy">>, 0)]
               /\ customers = [i \in 1..n |-> i]
               /\ metrics = [NewMetrics EXCEPT !.totalCustomers = n]
    /\ passes = <<>>
    /\ lastUpdate = NoUpdate
    /\ NotEvaluating
    /\ NoDecisions
    /\ EditorClosed
    /\ NewOptimizer(DairyLayout)
    /\ NotFollowed

\* The end of run(): updateCongestionMap(), then onUpdate with getMetrics().
CongestionRebuild ==
    /\ lastUpdate = NoUpdate
    /\ LET mapped == updateCongestionMap(World)
       IN  /\ metrics' = mapped.metrics
           /\ lastUpdate' = [customers |-> customers, time |-> time,
                             metrics |-> getMetrics(mapped)]
    /\ UNCHANGED <<layout, time, lastSpawnTime, isRunning, animationFrame,
                   agents, customers, passes>>
    /\ UNCHANGED <<evalVars, gaVars, aiVars, editorVars>>

CongestionSpec == CongestionInit /\ [][CongestionRebuild]_vars

\* The customers in cell c.
Occupants(c) ==
    {i \in DOMAIN customers : agents[customers[i]].x \div gridSize = c}

OccupiedCells == {agents[customers[i]].x \div gridSize : i \in DOMAIN customers}

\* The parts of C32 other than the mean: the bottleneck list, and the
\* values with no customer and with no completed customer.
BottlenecksAndZeros ==
    LET m == lastUpdate.metrics
    IN  /\ m.bottleneckLocations
               = {c \in OccupiedCells : Cardinality(Occupants(c)) >= 3}
        /\ m.bottleneckCount = Cardinality(m.bottleneckLocations)
        /\ customers = <<>> => (m.avgCongestion = 0 /\ m.bottleneckCount = 0)
        /\ m.completedCustomers = 0 => m.avgShoppingTime = 0

\* C32, as stated: after a congestion rebuild the bottleneck list holds
\* the cells with at least 3 customers, bottleneckCount is their number and
\* avgCongestion is the mean count of the occupied cells (here in tenths);
\* with no customer both are 0, with no completed customer
\* avgShoppingTime is 0.
C32_MeanOfOccupiedCells ==
    lastUpdate # NoUpdate
    => /\ BottlenecksAndZeros
       /\ lastUpdate.metrics.avgCongestion * Cardinality(OccupiedCells)
              = 10 * Len(customers)

\* C32, amended: avgCongestion is the mean count of the occupied cells
\* rounded to one decimal (Math.round of ten times the mean); the rest as
\* stated.
C32_RoundedMeanOfOccupiedCells ==
    lastUpdate # NoUpdate
    => /\ BottlenecksAndZeros
       /\ LET cells == Cardinality(OccupiedCells)
              avg == lastUpdate.metrics.avgCongestion
          IN  /\ 2 * cells * avg <= 20 * Len(customers) + cells
              /\ 20 * Len(customers) + cells < 2 * cells * (avg + 1)
                     \/ cells = 0

\* C32: the map was rebuilt with a bottleneck cell and a mean that is not
\* a whole number of tenths.
C32_RebuiltWithBottleneck ==
    /\ lastUpdate # NoUpdate
    /\ lastUpdate.metrics.bottleneckCount = 1
    /\ (10 * Len(customers)) % Cardinality(OccupiedCells) # 0

-----------------------------------------------------------------------------
(* Properties of the entrances and exits drawn in the Editor.               *)

Openings == editor.layout.entrances \o editor.layout.exits

\* C33: after any sequence of operations of the second Editor, every
\* entrance and every exit has a wallIndex that is an index of the walls
\* list, and the wall at that index is the one it was placed on.
C33_OpeningsFollowTheirWall ==
    editor.version = 2
    => \A o \in DOMAIN Openings :
           /\ Openings[o].wallIndex \in 0..(Len(editor.layout.walls) - 1)
           /\ editor.layout.walls[Openings[o].wallIndex + 1].drawn
                  = Openings[o].wall

\* C33: after the deletion of a wall, an entrance or exit is on a wall that
\* was drawn after the deleted one and has moved down in the list.
C33_WallBeforeDeleted ==
    /\ editor.version = 2
    /\ editor.event = "delete"
    /\ \E o \in DOMAIN Openings : Openings[o].wall > Openings[o].wallIndex + 1

\* C34: every entrance and exit made by the second Editor lies on its
\* wall: its offset is at least 0 and its offset plus its length is at
\* most the length of the wall.
C34_OpeningsWithinWall ==
    editor.version = 2
    => \A o \in DOMAIN Openings :
           /\ Openings[o].offset >= 0
           /\ Openings[o].offset + Openings[o].length
                  <= editor.layout.walls[Openings[o].wallIndex + 1].length

-----------------------------------------------------------------------------
(* C35: the completed customers of a run. *)

\* The customers created so far that have left the store.
Exited == {id \in DOMAIN agents : agents[id].status = "exited"}

-----------------------------------------------------------------------------
(* C36: stop(), then start() again, with decision calls that return late. *)

RestartLayouts == {TwoSectionLayout}

RestartInit ==
    /\ Constructed(RestartLayouts)
    /\ NotEvaluating
    /\ NoDecisions
    /\ EditorClosed
    /\ NewOptimizer(DairyLayout)
    /\ NotFollowed

RestartTick == time < RestartMaxTime /\ EngineTick

\* stop() is called after the frame that created a customer, while the
\* first decision call of this customer is awaited.
RestartStop ==
    /\ isRunning
    /\ passes # <<>>
    /\ time = lastSpawnTime
    /\ EngineStop

RestartNext == EngineStart \/ RestartTick \/ EngineResume \/ RestartStop

RestartSpec == RestartInit /\ [][RestartNext]_vars

\* The customers created since the last start(): totalCustomers counts them.
RunAgents(W) ==
    {id \in DOMAIN W.agents : id > Len(W.agents) - W.metrics.totalCustomers}

\* What a run shows of itself: its customers, its active set and counters.
RunView(W) ==
    [agents |-> [id \in RunAgents(W) |-> W.agents[id]],
     customers |-> W.customers,
     totalCustomers |-> W.metrics.totalCustomers,
     completedCustomers |-> W.metrics.completedCustomers,
     avgShoppingTime |-> W.metrics.avgShoppingTime]

\* The pass was suspended before the last start(): it holds none of the
\* customers of this run.
Late(p) == \A i \in DOMAIN p.arr : p.arr[i] \notin RunAgents(World)

\* The answer of makeFallbackDecision to the call the pass awaits.
FallbackFor(W, p) ==
    makeFallbackDecision(p.visible, W.agents[p.arr[p.idx]].shoppingList,
                         W.agents[p.arr[p.idx]].collected)

\* The decision call that pass k awaits returns.
Completed(W, k, t) ==
    resumeCustomers(WithoutPass(W, k), layout, W.passes[k], t,
                    FallbackFor(W, W.passes[k]))

\* Every decision call that is awaited returns, the oldest first.
RECURSIVE Drain(_, _)
Drain(W, t) ==
    IF W.passes = <<>> THEN W ELSE Drain(Completed(W, 1, t), t)

\* What the run can show after its next frame, once the calls have returned.
AfterFrame(W, deltaTime) ==
    {RunView(Drain(r.world, r.time)) :
        r \in run(W, layout, time, lastSpawnTime, deltaTime)}

\* C36, first part: from stop() to the next start() the counters of the
\* metrics and the active set stay as stop() left them, whatever decision
\* calls return in between.
C36_StoppedUntilStart ==
    [][(~isRunning /\ ~isRunning' /\ customers = <<>>) =>
          /\ customers' = <<>>
          /\ metrics'.totalCustomers = metrics.totalCustomers
          /\ metrics'.completedCustomers = metrics.completedCustomers
          /\ metrics'.avgShoppingTime = metrics.avgShoppingTime]_vars

\* C36, second part: a decision call issued before stop() that returns
\* after the next start() changes nothing of the new run.  The run shows
\* the same after its next frame whether that call has returned or never
\* does.
C36_LateReturnLeavesNewRun ==
    \A k \in DOMAIN passes, deltaTime \in DeltaTimes :
        (isRunning /\ animationFrame /\ Late(passes[k]))
        => AfterFrame(Completed(World, k, time), deltaTime)
               = AfterFrame(WithoutPass(World, k), deltaTime)

-----------------------------------------------------------------------------
(* C37, C38: what variation, crossover and mutation make of the layouts.   *)
(* Two members of a generation are followed: two survivors of generation 0 *)
(* first, then, generation after generation, survivors kept and children   *)
(* that crossover made of the two and mutate changed.                      *)

\* The members of generation 0: the original and its variations.
FirstGeneration(original) == {original} \cup createVariation(original)

BreedingInit ==
    /\ Constructed({DairyLayout})
    /\ NotEvaluating
    /\ NoDecisions
    /\ EditorClosed
    /\ originalLayout = TwoCheckoutLayout
    /\ progress = <<>>
    /\ generation = 0
    /\ bestLayout = <<>>
    /\ bestFitness = MinusInfinity
    /\ optimizing = TRUE
    /\ population = <<>>
    /\ evaluations = <<>>
    /\ evaluated = <<>>
    /\ member = 1
    /\ maxGenerations = MaxGenerations
    /\ pc = "crossover"
    /\ result = <<>>
    /\ thrown = FALSE
    /\ objects = NoObjects
    /\ \E p1 \in FirstGeneration(originalLayout),
          p2 \in FirstGeneration(originalLayout) :
           crossing = [NoCrossing EXCEPT
                          !.parents = <<Evaluation(p1, 0), Evaluation(p2, 0)>>]

\* The children crossover and mutate can make of the two members.
Bred ==
    UNION {MutateChild(child) : child \in CrossoverChild(crossing.parents)}

\* The two members are survivors of their generation.  A child of theirs
\* is in the next generation with one of them, which is kept as it is.
BreedOne ==
    /\ pc = "crossover"
    /\ generation < maxGenerations
    /\ \E kept \in DOMAIN crossing.parents, child \in Bred :
           crossing' = [NoCrossing EXCEPT
                           !.parents = <<crossing.parents[kept],
                                         Evaluation(child, 0)>>,
                           !.children = <<child>>]
    /\ generation' = generation + 1
    /\ UNCHANGED <<originalLayout, progress, bestLayout, bestFitness,
                   optimizing, population, evaluations, evaluated, member,
                   maxGenerations, pc, result, thrown>>
    /\ UNCHANGED <<engineVars, evalVars, aiVars, editorVars, objects>>

BreedingNext == BreedOne

BreedingSpec == BreedingInit /\ [][BreedingNext]_vars

ProductLabels(lay) == [i \in DOMAIN lay.products |-> lay.products[i].label]
ProductPositions(lay) == [i \in DOMAIN lay.products |-> lay.products[i].x]

\* The layout has the walls, entrances and exits of the original, as many
\* sections and checkouts, and the same labels as often.
SameStore(lay, original) ==
    /\ lay.walls = original.walls
    /\ lay.entrances = original.entrances
    /\ lay.exits = original.exits
    /\ Len(lay.products) = Len(original.products)
    /\ Len(lay.checkouts) = Len(original.checkouts)
    /\ Multiset(ProductLabels(lay)) = Multiset(ProductLabels(original))

\* C37: every layout of every generation has the walls, entrances and
\* exits of the original layout, as many product sections and checkouts,
\* and the same multiset of product labels.
C37_SameStoreInEveryGeneration ==
    \A i \in DOMAIN crossing.parents :
        SameStore(crossing.parents[i].layout, originalLayout)

\* A member of the second generation after generation 0 has its labels in
\* another order than the original and a checkout elsewhere.
C37_LabelsPermuted ==
    /\ generation = 2
    /\ \E i \in DOMAIN crossing.parents :
           /\ ProductLabels(crossing.parents[i].layout)
                  # ProductLabels(originalLayout)
           /\ crossing.parents[i].layout.checkouts # originalLayout.checkouts
           /\ crossing.children # <<>>

\* C38: in every layout of every generation the product sections are at
\* the positions of the original layout: the multiset of the positions is
\* that of the original.
C38_PositionsPermuted ==
    \A i \in DOMAIN crossing.parents :
        Multiset(ProductPositions(crossing.parents[i].layout))
            = Multiset(ProductPositions(originalLayout))

-----------------------------------------------------------------------------
(* C39: stop() and the first generation. *)

\* C39: optimize(n) with n >= 1 returns after one full generation at
\* least, whenever stop() is called: the best layout it returns is not
\* null and the generation count is 1 at least.  A stop() before
\* optimize() changes nothing: optimize() sets isRunning and enters its
\* loop.
C39_FirstGenerationCompleted ==
    /\ [](\A r \in DOMAIN result :
              maxGenerations >= 1 =>
                  /\ result[r].generations >= 1
                  /\ result[r].optimizedLayout # <<>>)
    /\ [][(pc = "constructed" /\ pc' # "constructed" /\ maxGenerations' >= 1)
              => (pc' = "evaluating" /\ optimizing' /\ generation' = 0)]_vars

\* optimize(2) has returned after one generation: stop() was called
\* during the first.
C39_StoppedInFirstGeneration ==
    /\ pc = "returned"
    /\ maxGenerations = 2
    /\ result # <<>>
    /\ result[1].generations = 1
    /\ result[1].optimizedLayout # <<>>
    /\ Len(progress) = 1

-----------------------------------------------------------------------------
(* C40: the layout objects.  Here a layout is an object of a heap and the   *)
(* optimizer holds references: what is written through one reference is    *)
(* seen through every other reference to the same object.  Objects that no *)
(* reference leads to any more are dropped.                                 *)

\* x itself where the source has JSON.parse(JSON.stringify(x)).
JSONAlias(H, ref) == [heap |-> H, ref |-> ref]

\* JSON.parse(JSON.stringify(x)): a new object with the value of x.
JSONCopy(H, ref) == [heap |-> Append(H, H[ref]), ref |-> Len(H) + 1]

\* new GeneticOptimizer(given, onProgress), the caller keeping its layout.
Constructor(given) ==
    LET copy == JSONCopy(<<given>>, 1)
    IN  [NoObjects EXCEPT !.heap = copy.heap, !.given = 1,
                          !.original = copy.ref, !.pc = "constructed"]

\* The objects a reference leads to, and the heap without the others.
Live(o) == ({o.given, o.original, o.best} \cup Range(o.population)) \ {0}
RefRank(S, ref) == Cardinality({r \in S : r <= ref})
Compact(o) ==
    LET S == Live(o)
        At(i) == CHOOSE r \in S : RefRank(S, r) = i
    IN  [o EXCEPT
            !.heap = [i \in 1..Cardinality(S) |-> o.heap[At(i)]],
            !.given = RefRank(S, @),
            !.original = RefRank(S, @),
            !.best = IF @ = 0 THEN 0 ELSE RefRank(S, @),
            !.population = [i \in DOMAIN @ |-> RefRank(S, @[i])]]

\* The loop of initializePopulation: n calls of createVariation, each on a
\* copy of the original that it then writes to.
RECURSIVE Variations(_, _, _)
Variations(H, original, n) ==
    IF n = 0 THEN {[heap |-> H, refs |-> <<>>]}
    ELSE UNION {
        LET copy == JSONCopy(before.heap, original)
        IN  {[heap |-> [copy.heap EXCEPT ![copy.ref] = variation],
              refs |-> Append(before.refs, copy.ref)] :
                variation \in createVariation(copy.heap[copy.ref])}
        : before \in Variations(H, original, n - 1)}

\* The loop of crossover: n children, each a copy of parent1 that the
\* positions of parent2 are written to.
RECURSIVE Children(_, _, _)
Children(H, parents, n) ==
    IF n = 0 THEN {[heap |-> H, refs |-> <<>>]}
    ELSE UNION {
        UNION {
            LET copy == JSONCopy(before.heap, parents[a])
            IN  {[heap |-> [copy.heap EXCEPT ![copy.ref] =
                               ChildOf(copy.heap[copy.ref],
                                       copy.heap[parents[b]], mixPoint, taken)],
                  refs |-> Append(before.refs, copy.ref)] :
                    mixPoint \in MixPoints(copy.heap[copy.ref]),
                    taken \in SUBSET DOMAIN copy.heap[copy.ref].checkouts}
            : a \in DOMAIN parents, b \in DOMAIN parents}
        : before \in Children(H, parents, n - 1)}

\* mutate(children): each child is changed where it is.
RECURSIVE Mutated(_, _)
Mutated(H, refs) ==
    IF refs = <<>> THEN {H}
    ELSE UNION {Mutated([H EXCEPT ![Head(refs)] = mutated], Tail(refs)) :
                   mutated \in MutateChild(H[Head(refs)])}

AliasInit ==
    /\ Constructed({DairyLayout})
    /\ NotEvaluating
    /\ NoDecisions
    /\ EditorClosed
    /\ NewOptimizer(DairyLayout)
    /\ objects = Constructor(originalLayout)

\* optimize() up to its loop: initializePopulation.
AliasOptimize ==
    /\ objects.pc = "constructed"
    /\ LET first == JSONCopy(objects.heap, objects.original)
       IN  \E v \in Variations(first.heap, objects.original,
                                populationSize - 1) :
               objects' = Compact([objects EXCEPT
                                      !.heap = v.heap,
                                      !.population = <<first.ref>> \o v.refs,
                                      !.pc = "evaluating"])
    /\ UNCHANGED <<engineVars, evalVars, aiVars, editorVars>>
    /\ UNCHANGED <<originalLayout, progress, generation, bestLayout,
                   bestFitness, optimizing, population, evaluations, evaluated,
                   member, maxGenerations, pc, result, thrown, crossing>>

\* One generation of the loop of optimize(), each evaluation fulfilled.
AliasGeneration ==
    /\ objects.pc = "evaluating"
    /\ \E fitnesses \in
           [DOMAIN objects.population ->
               UNION {evaluateLayout(objects.heap[objects.population[i]]) :
                         i \in DOMAIN objects.population}] :
        /\ \A i \in DOMAIN fitnesses :
               fitnesses[i]
                   \in evaluateLayout(objects.heap[objects.population[i]])
        /\ LET sorted == SortByFitness(
                             [i \in DOMAIN fitnesses |->
                                 Evaluation(objects.population[i],
                                            fitnesses[i])])
               better == sorted[1].fitness > objects.bestFitness
               copy == IF better THEN JSONCopy(objects.heap, sorted[1].layout)
                       ELSE [heap |-> objects.heap, ref |-> objects.best]
               survivors == [i \in 1..survivorCount |-> sorted[i].layout]
           IN  \E children \in Children(copy.heap, survivors,
                                         populationSize - survivorCount) :
               \E heap \in Mutated(children.heap, children.refs) :
                   objects' = Compact(
                       [objects EXCEPT
                           !.heap = heap,
                           !.best = copy.ref,
                           !.recorded = IF better
                                        THEN <<objects.heap[sorted[1].layout]>>
                                        ELSE @,
                           !.bestFitness = IF better THEN sorted[1].fitness
                                           ELSE @,
                           !.population = survivors \o children.refs,
                           !.generation = @ + 1,
                           !.pc = IF objects.generation + 1 < MaxGenerations
                                  THEN "evaluating" ELSE "returned"])
    /\ UNCHANGED <<engineVars, evalVars, aiVars, editorVars>>
    /\ UNCHANGED <<originalLayout, progress, generation, bestLayout,
                   bestFitness, optimizing, population, evaluations, evaluated,
                   member, maxGenerations, pc, result, thrown, crossing>>

AliasNext == AliasOptimize \/ AliasGeneration

AliasSpec == AliasInit /\ [][AliasNext]_vars

\* C40: optimize() never modifies the layout object given to the
\* constructor, nor this.originalLayout, which the result returns, nor the
\* best layout once it is recorded: the first two keep the value given at
\* construction, the third the value of the layout that was evaluated with
\* the best fitness, whatever crossover and mutate write later.
C40_GivenAndBestUntouched ==
    objects.pc # "none" =>
        /\ objects.heap[objects.given] = originalLayout
        /\ objects.heap[objects.original] = originalLayout
        /\ objects.best # 0 =>
               <<objects.heap[objects.best]>> = objects.recorded

\* optimize() has returned after two generations; mutate has written to a
\* child that is now in the population, and the best layout was recorded
\* in the first generation.
C40_MutatedAfterBestRecorded ==
    /\ objects.pc = "returned"
    /\ objects.generation = 2
    /\ objects.best # 0
    /\ \E i \in DOMAIN objects.population :
           /\ objects.heap[objects.population[i]] # objects.heap[objects.best]
           /\ objects.heap[objects.population[i]] # originalLayout
           /\ objects.heap[objects.population[i]]
                  \notin createVariation(originalLayout)

=============================================================================
